---- MODULE Spec2Model ----
(***************************************************************************)
(* Analytics pipeline of the trading agent (backend/agent/core/analytics): *)
(* 4-hour OHLC aggregation and backfill, dataset validation and reversal   *)
(* detection.  Prices are kept as exact fixed-point integers in units of   *)
(* 10^MinExpo, the value Decimal(price) * 10^expo denotes.                 *)
(***************************************************************************)
EXTENDS Integers, Sequences, FiniteSets, TLC

VARIABLES
    pc,                 \* position of the caller in the pipeline
    updates,            \* input: sequence of price updates
    start_time,         \* input: inclusive lower bound of the window
    end_time,           \* input: exclusive upper bound of the window
    aggregated,         \* result of aggregate_updates_to_4h_candles
    full,               \* result of backfill_missing_candles
    expected_count,     \* validate_candles argument
    minimum_unique,     \* validate_candles argument
    ok,                 \* validate_candles result, first component
    reasons,            \* validate_candles result, second component
    candles,            \* detect_reversals argument
    min_separation_bars,\* detect_reversals argument
    min_price_move_pct, \* detect_reversals argument, a rational <<num, den>>
    i,                  \* detect_reversals loop index (0-based, as in the source)
    reversals,          \* detect_reversals local: accepted points
    last_pivot_price,   \* detect_reversals local: {} is None, {p} is p
    last_index,         \* detect_reversals local: {} is None, {k} is k
    step,               \* what the last loop iteration of detect_reversals did
    error,              \* exception raised by the last call, "none" when it returned
    tolerance_pct,      \* build_bands argument, a rational <<num, den>>
    min_touches,        \* build_bands argument
    sorted_points,      \* cluster_reversals local: points by (price, timestamp)
    clusters,           \* cluster_reversals local / result
    ci,                 \* cluster_reversals: number of sorted points already placed
    bands,              \* result of build_bands; argument of rank_bands and
                        \* compute_rr_suggestions
    top_n_per_type,     \* rank_bands argument
    best,               \* result of rank_bands
    period,             \* rsi_from_candles argument
    rsi,                \* result of rsi_from_candles: <<>> is nan, else <<num, den>>
    entry_at,           \* compute_rr_suggestions argument
    stop_buffer_pct,    \* compute_rr_suggestions argument, a rational
    max_position_pct,   \* compute_rr_suggestions argument, a rational
    suggestions,        \* result of compute_rr_suggestions
    symbol,             \* SupportResistanceRequest.symbol
    projection_hours,   \* SupportResistanceRequest.projection_hours
    base_price,         \* price the price fetcher reports, {} when it fails
    substituted,        \* build replaced the dataset by _synthetic_candles
    tried,              \* band strategies build has run, in order
    response,           \* {} until build returns, then {its response}
    loop_set,           \* EventBus._loop is not None
    subscribers,        \* EventBus._subscribers: the queues' owners
    queues,             \* the subscribers' asyncio queues
    ready,              \* the event loop's queue of runnable callbacks
    main_pc,            \* position of the publishing task
    cons_pc,            \* position of the consumer task
    collected,          \* events the consumer has received
    warmup,             \* times the publisher yields before it publishes
    events,             \* the two events to publish
    signal,             \* TradeSignal of the current cycle
    quote,              \* QuoteResult.to_token_amount, {} before the fetch
    position_assessment,  \* {} or {is_acceptable}
    slippage_assessment,  \* {} or {is_acceptable}
    executed,           \* strategy ids passed to execute_strategy this cycle
    cycle               \* run_cycle calls started

vars == <<pc, updates, start_time, end_time, aggregated, full, expected_count,
          minimum_unique, ok, reasons, candles, min_separation_bars,
          min_price_move_pct, i, reversals, last_pivot_price, last_index, step,
          error, tolerance_pct, min_touches, sorted_points, clusters, ci, bands,
          top_n_per_type, best, period, rsi, entry_at, stop_buffer_pct,
          max_position_pct, suggestions, symbol, projection_hours, base_price,
          substituted, tried, response, loop_set, subscribers, queues, ready,
          main_pc, cons_pc, collected, warmup, events, signal, quote,
          position_assessment, slippage_assessment, executed, cycle>>

ohlcVars == <<updates, start_time, end_time, aggregated, full, expected_count,
              minimum_unique, ok, reasons>>
revVars == <<candles, min_separation_bars, min_price_move_pct, i, reversals,
             last_pivot_price, last_index, step>>
bandVars == <<tolerance_pct, min_touches, sorted_points, clusters, ci, bands,
              top_n_per_type, best>>
indVars == <<period, rsi, entry_at, stop_buffer_pct, max_position_pct,
             suggestions>>
svcVars == <<symbol, projection_hours, base_price, substituted, tried, response>>
busVars == <<loop_set, subscribers, queues, ready, main_pc, cons_pc, collected,
             warmup, events>>
agentVars == <<signal, quote, position_assessment, slippage_assessment,
               executed, cycle>>
extVars == <<svcVars, busVars, agentVars>>

\* the band, indicator and risk/reward stages before they are called
BandsIdle ==
    /\ tolerance_pct = <<0, 1>>
    /\ min_touches = 0
    /\ sorted_points = <<>>
    /\ clusters = <<>>
    /\ ci = 0
    /\ bands = <<>>
    /\ top_n_per_type = 0
    /\ best = <<>>

IndicatorsIdle ==
    /\ period = 0
    /\ rsi = <<>>
    /\ entry_at = "mid"
    /\ stop_buffer_pct = <<0, 1>>
    /\ max_position_pct = <<0, 1>>
    /\ suggestions = <<>>

\* the service before build is called
ServiceIdle ==
    /\ symbol = ""
    /\ projection_hours = 0
    /\ base_price = {}
    /\ substituted = FALSE
    /\ tried = <<>>
    /\ response = {}

\* no event bus and no consumer
BusIdle ==
    /\ loop_set = FALSE
    /\ subscribers = {}
    /\ queues = <<>>
    /\ ready = <<>>
    /\ main_pc = "idle"
    /\ cons_pc = "idle"
    /\ collected = <<>>
    /\ warmup = 0
    /\ events = <<>>

\* the trading agent before its first cycle
AgentIdle ==
    /\ signal = {}
    /\ quote = {}
    /\ position_assessment = {}
    /\ slippage_assessment = {}
    /\ executed = <<>>
    /\ cycle = 0

-----------------------------------------------------------------------------
(* Bounds and input domains *)

MaxUpdates == 3
MaxBucket == 1
MaxBars == 5
MaxPoints == 3
MaxBands == 3
MaxCycles == 2
MaxHist == 5

FOUR_HOURS_SECONDS == 14400

Offsets == {0, 10}
PublishTimes == {b * FOUR_HOURS_SECONDS + o : b \in 0..MaxBucket, o \in Offsets}
\* (mantissa, exponent) pairs: 10.00 and 12.0
Quotes == {<<1000, -2>>, <<120, -1>>}
Expos == {q[2] : q \in Quotes}
MinExpo == CHOOSE e \in Expos : \A f \in Expos : e <= f
UpdateSet == [publish_time : PublishTimes,
              price : {q[1] : q \in Quotes},
              expo : Expos] \cap
             {[publish_time |-> t, price |-> q[1], expo |-> q[2]] :
                 t \in PublishTimes, q \in Quotes}
\* windows [start, end): aligned with and without a trailing bucket that no
\* update can populate, unaligned, empty and inverted
Windows == {<<0, (MaxBucket + 1) * FOUR_HOURS_SECONDS>>,
            <<0, (MaxBucket + 2) * FOUR_HOURS_SECONDS>>,
            <<5, (MaxBucket + 1) * FOUR_HOURS_SECONDS + 5>>,
            <<FOUR_HOURS_SECONDS, FOUR_HOURS_SECONDS>>,
            <<FOUR_HOURS_SECONDS, 0>>}
\* closes of the bars handed to detect_reversals, in the model's price unit
Closes == {0, 90, 95, 100, 105, 110}
SeparationBars == {1, 2}
\* min_price_move_pct as <<numerator, denominator>>: 0 and 0.1
MovePcts == {<<0, 1>>, <<1, 10>>}
\* (expected_count, minimum_unique) arguments of validate_candles
ValidationArgs == {<<1, 1>>, <<MaxBucket + 2, 2>>}

\* prices of the reversal points handed to build_bands
PointPrices == {200, 220, 221, 240}
Kinds == {"peak", "trough"}
\* tolerance_pct as <<numerator, denominator>>: 0, 0.1 and 0.01
Tolerances == {<<0, 1>>, <<1, 10>>, <<1, 100>>}
MinTouches == {2, 3}

\* touch counts and last-touch times of the bands handed to rank_bands
TouchCounts == {2, 3}
TouchTimes == {0, FOUR_HOURS_SECONDS, 3 * FOUR_HOURS_SECONDS}
BandTypes == {"support", "resistance"}
TopNs == {1, 2}

\* closes of the bars handed to rsi_from_candles, and its period argument
RsiCloses == {90, 100, 105, 110}
Periods == {0, 1, 2, 3}

\* (lower, upper) of the bands handed to compute_rr_suggestions, and its
\* keyword arguments
BandBounds == {<<100, 100>>, <<99, 101>>, <<119, 121>>, <<79, 81>>}
EntryModes == {"mid", "lower", "upper"}
StopBuffers == {<<0, 1>>, <<1, 1000>>}
PositionPcts == {<<1, 4>>, <<1, 2>>}

\* signals a strategy may generate and amounts a quote may return
SignalAmounts == {0, 1000}
ExpectedPrices == {0, 100}
PositionSizes == {2000, 2500, 3000}
QuoteAmounts == {1000, 100000, 100500, 101000}

\* event payloads, and the number of times the publishing task yields to the
\* loop (asyncio.sleep(0)) between creating the consumer and publishing
Events == {"foo", "bar", "baz"}
Warmups == {0, 1}

\* requests to the service and what its collaborators return: prices of the
\* history updates (raw, exponent MinExpo), the live price used as the base
\* of a generated dataset, the time of the call
Symbols == {"ETH_USD", "DOGE_USD"}
HistPrices == {100, 110, 119, 120, 121, 130}
BasePrices == {10000, 200000}
RequestTolerances == {<<1, 200>>, <<1, 100>>}
RequestTouches == {2, 3}
ProjectionHours == {72}
Nows == {30 * FOUR_HOURS_SECONDS, 30 * FOUR_HOURS_SECONDS + 5}

SeqsUpTo(S, n) == UNION {[1..k -> S] : k \in 0..n}

-----------------------------------------------------------------------------
(* Helpers for Python built-ins *)

RECURSIVE Pow10(_)
Pow10(n) == IF n <= 0 THEN 1 ELSE 10 * Pow10(n - 1)

Abs(x) == IF x < 0 THEN -x ELSE x

SetMin(S) == CHOOSE x \in S : \A y \in S : x <= y
SetMax(S) == CHOOSE x \in S : \A y \in S : x >= y

Range(s) == {s[k] : k \in 1..Len(s)}

\* list.sort(key=...) / sorted(..., key=...) on <<key, value>> pairs: stable
RECURSIVE InsertByKey(_, _)
InsertByKey(sorted, x) ==
    IF sorted = <<>> THEN <<x>>
    ELSE IF x[1] < Head(sorted)[1] THEN <<x>> \o sorted
    ELSE <<Head(sorted)>> \o InsertByKey(Tail(sorted), x)

RECURSIVE StableSort(_)
StableSort(s) ==
    IF s = <<>> THEN <<>>
    ELSE InsertByKey(StableSort(SubSeq(s, 1, Len(s) - 1)), s[Len(s)])

RECURSIVE SortedSet(_)
SortedSet(S) ==
    IF S = {} THEN <<>> ELSE <<SetMin(S)>> \o SortedSet(S \ {SetMin(S)})

-----------------------------------------------------------------------------
(* core/analytics/ohlc.py *)

Candle(st, en, o, h, l, c, n, syn) ==
    [start_time |-> st, end_time |-> en, open |-> o, high |-> h, low |-> l,
     close |-> c, count |-> n, synthetic |-> syn]

window_bounds(epoch_seconds) ==
    LET start == (epoch_seconds \div FOUR_HOURS_SECONDS) * FOUR_HOURS_SECONDS
    IN  <<start, start + FOUR_HOURS_SECONDS>>

\* Decimal(price) * 10^expo, in units of 10^MinExpo
to_float_price(price, expo) == price * Pow10(expo - MinExpo)

\* faulty variants of the window filter: a missing lower / upper bound
in_window_no_lower(ts, start, end) == ts < end
in_window_no_upper(ts, start, end) == ts >= start

\* the filter of the bucketing loop: True when the update is kept
in_window(ts, start, end) == ~(ts < start \/ ts >= end)

\* buckets[window_start]: (ts, price) entries in input order
bucket_entries(ups, start, end, window_start) ==
    LET kept == SelectSeq(ups, LAMBDA u :
                    /\ in_window(u.publish_time, start, end)
                    /\ window_bounds(u.publish_time)[1] = window_start)
    IN  [k \in 1..Len(kept) |->
            <<kept[k].publish_time, to_float_price(kept[k].price, kept[k].expo)>>]

bucket_keys(ups, start, end) ==
    {window_bounds(ups[k].publish_time)[1] :
        k \in {j \in 1..Len(ups) : in_window(ups[j].publish_time, start, end)}}

\* faulty variant: the entries of a bucket are not sorted chronologically
make_candle_unsorted(window_start, entries) ==
    LET prices == [k \in 1..Len(entries) |-> entries[k][2]]
    IN  Candle(window_start, window_start + FOUR_HOURS_SECONDS,
               prices[1], SetMax(Range(prices)), SetMin(Range(prices)),
               prices[Len(prices)], Len(prices), FALSE)

make_candle(window_start, entries) ==
    LET sorted == StableSort(entries)
        prices == [k \in 1..Len(sorted) |-> sorted[k][2]]
    IN  Candle(window_start, window_start + FOUR_HOURS_SECONDS,
               prices[1], SetMax(Range(prices)), SetMin(Range(prices)),
               prices[Len(prices)], Len(prices), FALSE)

aggregate_updates_to_4h_candles(ups, start, end) ==
    LET keys == SortedSet(bucket_keys(ups, start, end))
    IN  [k \in 1..Len(keys) |->
            make_candle(keys[k], bucket_entries(ups, start, end, keys[k]))]

\* {c.start_time: c for c in candles}: the last candle of a start wins
by_start(cs) ==
    [s \in {cs[k].start_time : k \in 1..Len(cs)} |->
        cs[SetMax({k \in 1..Len(cs) : cs[k].start_time = s})]]

\* faulty variant: the first boundary is not moved up to the window start
first_start_floor(start) == window_bounds(start)[1]

first_start(start) ==
    LET fs == window_bounds(start)[1]
    IN  IF fs < start THEN fs + FOUR_HOURS_SECONDS ELSE fs

\* sorted(candles, key=lambda x: x.start_time)
sorted_by_start(cs) ==
    LET keyed == StableSort([k \in 1..Len(cs) |-> <<cs[k].start_time, cs[k]>>])
    IN  [k \in 1..Len(keyed) |-> keyed[k][2]]

\* the for loop before the while loop: close of the last candle that starts
\* before first_start ({} when there is none)
RECURSIVE prior_close(_, _, _)
prior_close(sorted, fs, last_close) ==
    IF sorted = <<>> THEN last_close
    ELSE IF Head(sorted).start_time >= fs THEN last_close
    ELSE prior_close(Tail(sorted), fs, {Head(sorted).close})

\* faulty variant: an existing bar does not refresh last_close
RECURSIVE backfill_loop_stale(_, _, _, _, _)
backfill_loop_stale(bs, cursor, end, last_close, acc) ==
    IF ~(cursor < end) THEN acc
    ELSE LET window_end == cursor + FOUR_HOURS_SECONDS IN
         IF cursor \in DOMAIN bs
         THEN backfill_loop_stale(bs, window_end, end, last_close,
                                  Append(acc, bs[cursor]))
         ELSE IF last_close = {} /\ DOMAIN bs = {}
              THEN backfill_loop_stale(bs, window_end, end, last_close, acc)
              ELSE LET lc == IF last_close = {}
                             THEN bs[SetMin(DOMAIN bs)].open
                             ELSE CHOOSE v \in last_close : TRUE
                   IN  backfill_loop_stale(bs, window_end, end, {lc},
                           Append(acc, Candle(cursor, window_end,
                                              lc, lc, lc, lc, 0, TRUE)))

RECURSIVE backfill_loop(_, _, _, _, _)
backfill_loop(bs, cursor, end, last_close, acc) ==
    IF ~(cursor < end) THEN acc
    ELSE LET window_end == cursor + FOUR_HOURS_SECONDS IN
         IF cursor \in DOMAIN bs
         THEN backfill_loop(bs, window_end, end, {bs[cursor].close},
                            Append(acc, bs[cursor]))
         ELSE IF last_close = {} /\ DOMAIN bs = {}
              THEN backfill_loop(bs, window_end, end, last_close, acc)
              ELSE LET lc == IF last_close = {}
                             THEN bs[SetMin(DOMAIN bs)].open
                             ELSE CHOOSE v \in last_close : TRUE
                   IN  backfill_loop(bs, window_end, end, {lc},
                           Append(acc, Candle(cursor, window_end,
                                              lc, lc, lc, lc, 0, TRUE)))

backfill_missing_candles(cs, start, end) ==
    backfill_loop(by_start(cs), first_start(start), end,
                  prior_close(sorted_by_start(cs), first_start(start), {}),
                  <<>>)

build_full_4h_candles(ups, start, end) ==
    IF ups = <<>> THEN <<>>
    ELSE backfill_missing_candles(
             aggregate_updates_to_4h_candles(ups, start, end), start, end)

-----------------------------------------------------------------------------
(* core/analytics/validation.py *)

has_min_unique_datapoints(cs, minimum) ==
    Cardinality({cs[k].close : k \in 1..Len(cs)}) >= minimum

validate_candles(cs, expected, minimum) ==
    LET real_count == Cardinality({k \in 1..Len(cs) : ~cs[k].synthetic})
        r1 == IF Len(cs) < expected THEN <<"insufficient_candles">> ELSE <<>>
        r2 == IF real_count = 0 THEN <<"no_real_candles">>
              ELSE IF ~has_min_unique_datapoints(cs, minimum)
                   THEN <<"insufficient_unique_prices">>
                   ELSE <<>>
    IN  <<Len(r1 \o r2) = 0, r1 \o r2>>

-----------------------------------------------------------------------------
(* The OHLC pipeline as its callers drive it *)

InitOhlc ==
    /\ pc = "input"
    /\ ServiceIdle /\ BusIdle /\ AgentIdle
    /\ updates \in SeqsUpTo(UpdateSet, MaxUpdates)
    /\ \E w \in Windows : start_time = w[1] /\ end_time = w[2]
    /\ aggregated = <<>>
    /\ full = <<>>
    /\ expected_count = 0
    /\ minimum_unique = 0
    /\ ok = FALSE
    /\ reasons = <<>>
    /\ candles = <<>>
    /\ min_separation_bars = 0
    /\ min_price_move_pct = <<0, 1>>
    /\ i = 0
    /\ reversals = <<>>
    /\ last_pivot_price = {}
    /\ last_index = {}
    /\ step = "idle"
    /\ error = "none"
    /\ BandsIdle
    /\ IndicatorsIdle

\* aggregate_updates_to_4h_candles called on its own; it has no raise statement
CallAggregate ==
    /\ pc = "input"
    /\ aggregated' = aggregate_updates_to_4h_candles(updates, start_time, end_time)
    /\ error' = "none"
    /\ pc' = "aggregated"
    /\ UNCHANGED <<updates, start_time, end_time, full, expected_count,
                   minimum_unique, ok, reasons>>
    /\ UNCHANGED revVars
    /\ UNCHANGED <<bandVars, indVars>>
    /\ UNCHANGED extVars

\* backfill_missing_candles called on the aggregator's result
CallBackfill ==
    /\ pc = "aggregated"
    /\ full' = backfill_missing_candles(aggregated, start_time, end_time)
    /\ error' = "none"
    /\ pc' = "backfilled"
    /\ UNCHANGED <<updates, start_time, end_time, aggregated, expected_count,
                   minimum_unique, ok, reasons>>
    /\ UNCHANGED revVars
    /\ UNCHANGED <<bandVars, indVars>>
    /\ UNCHANGED extVars

\* build_full_4h_candles: both steps in one call (aggregated is its local)
CallBuildFull ==
    /\ pc = "input"
    /\ aggregated' = IF updates = <<>> THEN <<>>
                     ELSE aggregate_updates_to_4h_candles(updates, start_time, end_time)
    /\ full' = build_full_4h_candles(updates, start_time, end_time)
    /\ error' = "none"
    /\ pc' = "backfilled"
    /\ UNCHANGED <<updates, start_time, end_time, expected_count,
                   minimum_unique, ok, reasons>>
    /\ UNCHANGED revVars
    /\ UNCHANGED <<bandVars, indVars>>
    /\ UNCHANGED extVars

CallValidate ==
    /\ pc = "backfilled"
    /\ \E a \in ValidationArgs :
          /\ expected_count' = a[1]
          /\ minimum_unique' = a[2]
          /\ ok' = validate_candles(full, a[1], a[2])[1]
          /\ reasons' = validate_candles(full, a[1], a[2])[2]
    /\ error' = "none"
    /\ pc' = "validated"
    /\ UNCHANGED <<updates, start_time, end_time, aggregated, full>>
    /\ UNCHANGED revVars
    /\ UNCHANGED <<bandVars, indVars>>
    /\ UNCHANGED extVars

NextOhlc == CallAggregate \/ CallBackfill \/ CallBuildFull \/ CallValidate

SpecOhlc == InitOhlc /\ [][NextOhlc]_vars

-----------------------------------------------------------------------------
(* Properties of aggregation, backfill and validation (checked under SpecOhlc) *)

\* the bucket of a timestamp, stated without the floor division of the code
BucketOf(ts) == ts - (ts % FOUR_HOURS_SECONDS)

\* indices of the updates with start <= publish_time < end
InWindowIdx == {k \in 1..Len(updates) :
                  start_time <= updates[k].publish_time
                  /\ updates[k].publish_time < end_time}

\* indices of the in-window updates whose publish_time falls in bar b
Contributors(b) == {k \in InWindowIdx :
                      b.start_time <= updates[k].publish_time
                      /\ updates[k].publish_time < b.end_time}

\* value of update k in the model's price unit
Scaled(k) == updates[k].price * Pow10(updates[k].expo - MinExpo)

Aggregated == pc \in {"aggregated", "backfilled", "validated"}
Backfilled == pc \in {"backfilled", "validated"}

Max2(a, b) == IF a >= b THEN a ELSE b
Min2(a, b) == IF a <= b THEN a ELSE b

\* C1: every bar returned by the aggregator has high >= max(open, close),
\* low <= min(open, close), and a sample count equal to the number of in-window
\* updates whose publish_time falls in the bar's bucket.
C1_BarShape ==
    Aggregated =>
        \A k \in 1..Len(aggregated) :
            LET b == aggregated[k] IN
            /\ b.high >= Max2(b.open, b.close)
            /\ b.low <= Min2(b.open, b.close)
            /\ b.count = Cardinality(Contributors(b))

\* C1 witness: a bar of two samples with different prices whose bucket also
\* holds an update that was discarded because it precedes the window start.
C1_Witness ==
    /\ Aggregated
    /\ \E k \in 1..Len(aggregated) :
          /\ aggregated[k].count = 2
          /\ aggregated[k].high > aggregated[k].low
          /\ \E j \in 1..Len(updates) :
                /\ j \notin InWindowIdx
                /\ BucketOf(updates[j].publish_time) = aggregated[k].start_time

\* C1 second witness: a bar of three samples whose high lies strictly above
\* both its open and its close.
C1_HighWitness ==
    /\ Aggregated
    /\ \E k \in 1..Len(aggregated) :
          /\ aggregated[k].count = 3
          /\ aggregated[k].high > Max2(aggregated[k].open, aggregated[k].close)

\* the parts of C2 that do not concern open/close: the bars are exactly the
\* populated buckets of the in-window updates, strictly ascending, W wide, with
\* high/low the extremes of the bucket's in-window updates
C2_Buckets ==
    /\ {aggregated[k].start_time : k \in 1..Len(aggregated)} =
          {BucketOf(updates[j].publish_time) : j \in InWindowIdx}
    /\ \A k \in 1..Len(aggregated) :
          /\ aggregated[k].end_time = aggregated[k].start_time + FOUR_HOURS_SECONDS
          /\ aggregated[k].start_time % FOUR_HOURS_SECONDS = 0
          /\ k > 1 => aggregated[k - 1].start_time < aggregated[k].start_time
          /\ \A j \in Contributors(aggregated[k]) :
                aggregated[k].low <= Scaled(j) /\ Scaled(j) <= aggregated[k].high
          /\ \E j \in Contributors(aggregated[k]) : aggregated[k].high = Scaled(j)
          /\ \E j \in Contributors(aggregated[k]) : aggregated[k].low = Scaled(j)

Earliest(b) == {j \in Contributors(b) :
                  \A m \in Contributors(b) :
                      updates[j].publish_time <= updates[m].publish_time}
Latest(b) == {j \in Contributors(b) :
                \A m \in Contributors(b) :
                    updates[j].publish_time >= updates[m].publish_time}

\* C2 as claimed: open/close are the scaled price of the bucket's
\* chronologically first/last update whatever the order of the input sequence,
\* i.e. of any update carrying the bucket's least/greatest publish_time.
C2_Original ==
    Aggregated =>
        /\ C2_Buckets
        /\ \A k \in 1..Len(aggregated) :
              /\ \A j \in Earliest(aggregated[k]) : aggregated[k].open = Scaled(j)
              /\ \A j \in Latest(aggregated[k]) : aggregated[k].close = Scaled(j)

\* C2 amended: the aggregator uses exactly the in-window updates, one bar per
\* populated bucket floor(t / W) * W in strictly ascending order with
\* end_time = start_time + W; open is the scaled price of the update with the
\* least publish_time of the bucket and close of the one with the greatest,
\* and among updates sharing that publish_time the input order decides: the
\* first of them in the input gives open, the last of them gives close.
C2_Amended ==
    Aggregated =>
        /\ C2_Buckets
        /\ \A k \in 1..Len(aggregated) :
              /\ aggregated[k].open = Scaled(SetMin(Earliest(aggregated[k])))
              /\ aggregated[k].close = Scaled(SetMax(Latest(aggregated[k])))

\* C2 witness: two bars in a window that also holds an unpopulated bucket,
\* the first built from two updates given in reverse chronological order
\* with different prices.
C2_Witness ==
    /\ Aggregated
    /\ Len(aggregated) = 2
    /\ \E n \in 0..(MaxBucket + 1) :
          /\ start_time <= n * FOUR_HOURS_SECONDS
          /\ n * FOUR_HOURS_SECONDS < end_time
          /\ \A k \in 1..Len(aggregated) :
                aggregated[k].start_time # n * FOUR_HOURS_SECONDS
    /\ \E j, m \in Contributors(aggregated[1]) :
          /\ j < m
          /\ updates[j].publish_time > updates[m].publish_time
          /\ Scaled(j) # Scaled(m)

\* C3 as claimed: aggregation over a window with end <= start fails with
\* InvalidWindow instead of returning a bar list.
C3_Original ==
    (Aggregated /\ end_time <= start_time) => error = "InvalidWindow"

\* C3 amended: aggregation over a window with end <= start raises nothing and
\* returns the empty bar list, and so does the backfilled series built on it.
C3_Amended ==
    (Aggregated /\ end_time <= start_time) =>
        /\ error = "none"
        /\ aggregated = <<>>
        /\ Backfilled => full = <<>>

\* C3 witness: an inverted window whose span [end, start] holds updates, after
\* aggregation and backfill.
C3_Witness ==
    /\ Backfilled
    /\ end_time < start_time
    /\ \E k \in 1..Len(updates) :
          /\ end_time <= updates[k].publish_time
          /\ updates[k].publish_time <= start_time

\* the W-aligned boundaries b with start <= b < end
Boundaries ==
    {b \in {n * FOUR_HOURS_SECONDS :
              n \in (start_time \div FOUR_HOURS_SECONDS)..
                    (end_time \div FOUR_HOURS_SECONDS)} :
        start_time <= b /\ b < end_time}

\* C4: for a sparse list from the aggregator holding at least one bar, the
\* backfilled series has exactly one bar for every W-aligned boundary b with
\* start <= b < end, strictly ascending, each bar starting where the previous
\* one ends.
C4_Contiguous ==
    (Backfilled /\ Len(aggregated) >= 1) =>
        /\ {full[k].start_time : k \in 1..Len(full)} = Boundaries
        /\ Len(full) = Cardinality(Boundaries)
        /\ \A k \in 1..Len(full) :
              /\ full[k].end_time = full[k].start_time + FOUR_HOURS_SECONDS
              /\ k > 1 => full[k].start_time = full[k - 1].end_time

\* C4 witness: a single real bar in the middle bucket of an aligned
\* three-bucket window is expanded to exactly three contiguous bars.
C4_Witness ==
    /\ Backfilled
    /\ start_time = 0
    /\ Len(aggregated) = 1
    /\ Len(full) = 3
    /\ full[1].synthetic /\ ~full[2].synthetic /\ full[3].synthetic
    /\ full[2].start_time = full[1].end_time
    /\ full[3].start_time = full[2].end_time

\* C4 second witness: one update in each bucket of an aligned window gives
\* one real bar per bucket and no synthetic bar.
C4_AllRealWitness ==
    /\ Backfilled
    /\ start_time = 0
    /\ Len(full) = MaxBucket + 1
    /\ Len(updates) = MaxBucket + 1
    /\ \A k \in 1..Len(full) : ~full[k].synthetic

\* C4 third witness: an unaligned window whose only real bar starts before
\* the window start; the series begins at the first boundary after the start.
C4_UnalignedWitness ==
    /\ Backfilled
    /\ start_time % FOUR_HOURS_SECONDS # 0
    /\ Len(aggregated) = 1
    /\ aggregated[1].start_time < start_time
    /\ Len(full) >= 1
    /\ full[1].synthetic

Flat(b) == b.synthetic = TRUE /\ b.count = 0 /\ b.open = b.close
           /\ b.high = b.close /\ b.low = b.close

\* C5 as claimed: every synthetic bar of the backfilled series is flagged,
\* has count 0 and open = high = low = close, and that value is the close of
\* the bar immediately preceding it in the output series.
C5_Original ==
    Backfilled =>
        \A k \in 1..Len(full) :
            full[k].synthetic =>
                /\ Flat(full[k])
                /\ k > 1
                /\ full[k].close = full[k - 1].close

\* aggregated bars that start before the first boundary of the window
Before == {k \in 1..Len(aggregated) :
             aggregated[k].start_time < SetMin(Boundaries)}

\* C5 amended: every synthetic bar is flagged, has count 0 and
\* open = high = low = close; a synthetic bar that has a predecessor in the
\* output carries that predecessor's close; a synthetic bar that opens the
\* output carries the close of the latest aggregated bar before the first
\* boundary, or, when there is none, the open of the earliest aggregated bar.
C5_Amended ==
    Backfilled =>
        \A k \in 1..Len(full) :
            full[k].synthetic =>
                /\ Flat(full[k])
                /\ k > 1 => full[k].close = full[k - 1].close
                /\ k = 1 => full[k].close =
                      IF Before # {} THEN aggregated[SetMax(Before)].close
                      ELSE aggregated[1].open

\* C5 witness: a series that opens with a synthetic bar seeded from a real
\* bar whose open differs from its close, and ends with a synthetic bar that
\* repeats that real bar's close.
C5_Witness ==
    /\ Backfilled
    /\ Len(full) = 3
    /\ full[1].synthetic /\ ~full[2].synthetic /\ full[3].synthetic
    /\ full[2].open # full[2].close
    /\ full[1].close = full[2].open
    /\ full[3].close = full[2].close

RealCloses == {full[k].close : k \in {j \in 1..Len(full) : ~full[j].synthetic}}
InReasons(r) == \E k \in 1..Len(reasons) : reasons[k] = r

\* C6: validate_candles reports insufficient_unique_prices exactly when the
\* number of distinct closes among the real (non-synthetic) bars is below
\* minimum_unique; closes of synthetic bars do not count.
C6_UniqueAmongReal ==
    pc = "validated" =>
        (InReasons("insufficient_unique_prices")
            <=> Cardinality(RealCloses) < minimum_unique)

\* C7: a series of at least expected_count bars that holds one real bar and
\* otherwise synthetic flat bars repeating that bar's close is accepted
\* (ok = true, no reasons) for a minimum_unique greater than 1.
C7_RealPlusSynthetic ==
    (/\ pc = "validated"
     /\ Len(full) >= expected_count
     /\ minimum_unique > 1
     /\ Cardinality({k \in 1..Len(full) : ~full[k].synthetic}) = 1
     /\ \A k \in 1..Len(full) :
           full[k].synthetic =>
               Flat(full[k]) /\ {full[k].close} = RealCloses)
    => (ok = TRUE /\ reasons = <<>>)

-----------------------------------------------------------------------------
(* core/analytics/reversals.py *)

ReversalPoint(idx, ts, price, kind, magnitude_pct) ==
    [index |-> idx, timestamp |-> ts, price |-> price, kind |-> kind,
     magnitude_pct |-> magnitude_pct]

is_peak(prev_close, curr_close, next_close) ==
    \/ (curr_close > prev_close /\ curr_close >= next_close)
    \/ (curr_close >= prev_close /\ curr_close > next_close)

is_trough(prev_close, curr_close, next_close) ==
    \/ (curr_close < prev_close /\ curr_close <= next_close)
    \/ (curr_close <= prev_close /\ curr_close < next_close)

\* kind of candles[i] (0-based i), "none" for Python's None
kind_at(cs, idx) ==
    IF is_peak(cs[idx].close, cs[idx + 1].close, cs[idx + 2].close) THEN "peak"
    ELSE IF is_trough(cs[idx].close, cs[idx + 1].close, cs[idx + 2].close)
         THEN "trough"
         ELSE "none"

\* faulty variant: the separation test is off by one
too_close_le(idx, last, sep) ==
    last # {} /\ (idx - (CHOOSE v \in last : TRUE)) <= sep

\* last_index is not None and (i - last_index) < min_separation_bars
too_close(idx, last, sep) ==
    last # {} /\ (idx - (CHOOSE v \in last : TRUE)) < sep

\* faulty variant: the move is not divided by the pivot price
magnitude_absolute(close, last_price) ==
    IF last_price # {} /\ (CHOOSE v \in last_price : TRUE) > 0
    THEN <<Abs(close - (CHOOSE v \in last_price : TRUE)), 1>>
    ELSE <<0, 1>>

\* magnitude_pct as the rational <<numerator, denominator>>, denominator > 0
magnitude(close, last_price) ==
    IF last_price # {} /\ (CHOOSE v \in last_price : TRUE) > 0
    THEN <<Abs(close - (CHOOSE v \in last_price : TRUE)),
           CHOOSE v \in last_price : TRUE>>
    ELSE <<0, 1>>

\* a < b for rationals with positive denominators
RatLess(a, b) == a[1] * b[2] < b[1] * a[2]

\* magnitude_pct < min_price_move_pct and last_pivot_price is not None
small_move(mag, pct, last_price) == RatLess(mag, pct) /\ last_price # {}

\* the bars the detector is run on: one update per consecutive bucket, built
\* by build_full_4h_candles over the aligned window that holds them
BarsOfCloses(cl) ==
    build_full_4h_candles(
        [k \in 1..Len(cl) |->
            [publish_time |-> (k - 1) * FOUR_HOURS_SECONDS,
             price |-> cl[k], expo |-> MinExpo]],
        0, Len(cl) * FOUR_HOURS_SECONDS)

InitRev ==
    /\ pc = "rev_call"
    /\ ServiceIdle /\ BusIdle /\ AgentIdle
    /\ \E cl \in SeqsUpTo(Closes, MaxBars) : candles = BarsOfCloses(cl)
    /\ min_separation_bars \in SeparationBars
    /\ min_price_move_pct \in MovePcts
    /\ i = 0
    /\ reversals = <<>>
    /\ last_pivot_price = {}
    /\ last_index = {}
    /\ step = "idle"
    /\ error = "none"
    /\ updates = <<>>
    /\ start_time = 0
    /\ end_time = 0
    /\ aggregated = <<>>
    /\ full = <<>>
    /\ expected_count = 0
    /\ minimum_unique = 0
    /\ ok = FALSE
    /\ reasons = <<>>
    /\ BandsIdle
    /\ IndicatorsIdle

\* n < 3: return []
RevTooShort ==
    /\ pc = "rev_call"
    /\ Len(candles) < 3
    /\ pc' = "rev_done"
    /\ step' = "return"
    /\ UNCHANGED <<candles, min_separation_bars, min_price_move_pct, i,
                   reversals, last_pivot_price, last_index, error>>
    /\ UNCHANGED ohlcVars
    /\ UNCHANGED <<bandVars, indVars>>
    /\ UNCHANGED extVars

\* entry of the for loop: i = 1
RevEnter ==
    /\ pc = "rev_call"
    /\ ~(Len(candles) < 3)
    /\ pc' = "rev_loop"
    /\ i' = 1
    /\ step' = "enter"
    /\ UNCHANGED <<candles, min_separation_bars, min_price_move_pct,
                   reversals, last_pivot_price, last_index, error>>
    /\ UNCHANGED ohlcVars
    /\ UNCHANGED <<bandVars, indVars>>
    /\ UNCHANGED extVars

InLoop == pc = "rev_loop" /\ i < Len(candles) - 1

\* one iteration: kind is None
RevNoExtremum ==
    /\ InLoop
    /\ kind_at(candles, i) = "none"
    /\ i' = i + 1
    /\ step' = "no_extremum"
    /\ UNCHANGED <<pc, candles, min_separation_bars, min_price_move_pct,
                   reversals, last_pivot_price, last_index, error>>
    /\ UNCHANGED ohlcVars
    /\ UNCHANGED <<bandVars, indVars>>
    /\ UNCHANGED extVars

\* one iteration: the candidate is too close to the last accepted point
RevTooClose ==
    /\ InLoop
    /\ kind_at(candles, i) # "none"
    /\ too_close(i, last_index, min_separation_bars)
    /\ i' = i + 1
    /\ step' = "too_close"
    /\ UNCHANGED <<pc, candles, min_separation_bars, min_price_move_pct,
                   reversals, last_pivot_price, last_index, error>>
    /\ UNCHANGED ohlcVars
    /\ UNCHANGED <<bandVars, indVars>>
    /\ UNCHANGED extVars

\* one iteration: the candidate moved too little from the last accepted point
RevSmallMove ==
    /\ InLoop
    /\ kind_at(candles, i) # "none"
    /\ ~too_close(i, last_index, min_separation_bars)
    /\ small_move(magnitude(candles[i + 1].close, last_pivot_price),
                  min_price_move_pct, last_pivot_price)
    /\ i' = i + 1
    /\ step' = "small_move"
    /\ UNCHANGED <<pc, candles, min_separation_bars, min_price_move_pct,
                   reversals, last_pivot_price, last_index, error>>
    /\ UNCHANGED ohlcVars
    /\ UNCHANGED <<bandVars, indVars>>
    /\ UNCHANGED extVars

\* one iteration: the candidate is appended and becomes the pivot
RevAccept ==
    /\ InLoop
    /\ kind_at(candles, i) # "none"
    /\ ~too_close(i, last_index, min_separation_bars)
    /\ ~small_move(magnitude(candles[i + 1].close, last_pivot_price),
                   min_price_move_pct, last_pivot_price)
    /\ reversals' = Append(reversals,
          ReversalPoint(i, candles[i + 1].start_time, candles[i + 1].close,
                        kind_at(candles, i),
                        magnitude(candles[i + 1].close, last_pivot_price)))
    /\ last_pivot_price' = {candles[i + 1].close}
    /\ last_index' = {i}
    /\ i' = i + 1
    /\ step' = "accept"
    /\ UNCHANGED <<pc, candles, min_separation_bars, min_price_move_pct, error>>
    /\ UNCHANGED ohlcVars
    /\ UNCHANGED <<bandVars, indVars>>
    /\ UNCHANGED extVars

\* the loop is exhausted: return reversals
RevReturn ==
    /\ pc = "rev_loop"
    /\ ~(i < Len(candles) - 1)
    /\ pc' = "rev_done"
    /\ step' = "return"
    /\ UNCHANGED <<candles, min_separation_bars, min_price_move_pct, i,
                   reversals, last_pivot_price, last_index, error>>
    /\ UNCHANGED ohlcVars
    /\ UNCHANGED <<bandVars, indVars>>
    /\ UNCHANGED extVars

NextRev == \/ RevTooShort \/ RevEnter \/ RevNoExtremum \/ RevTooClose
           \/ RevSmallMove \/ RevAccept \/ RevReturn

SpecRev == InitRev /\ [][NextRev]_vars

-----------------------------------------------------------------------------
(* Properties of reversal detection (checked under SpecRev) *)

\* close of the bar at 0-based index k
CloseAt(k) == candles[k + 1].close
LastBar == Len(candles) - 1
Interior == 1..(LastBar - 1)

Above(k) == CloseAt(k) > CloseAt(k - 1) /\ CloseAt(k) > CloseAt(k + 1)
Below(k) == CloseAt(k) < CloseAt(k - 1) /\ CloseAt(k) < CloseAt(k + 1)

\* every interior close is strictly above both neighbours or strictly below both
StrictZigzag == Len(candles) >= 3 /\ \A k \in Interior : Above(k) \/ Below(k)

DefaultFilters == min_separation_bars = 1 /\ min_price_move_pct[1] = 0

\* C8: on a strict zigzag, detect_reversals with min_separation_bars = 1 and
\* min_price_move_pct = 0 reports every interior index 1..n-2 in order and no
\* other index, a peak where the close is above its neighbours and a trough
\* where it is below, so that the kinds strictly alternate.
C8_Zigzag ==
    (pc = "rev_done" /\ DefaultFilters /\ StrictZigzag) =>
        /\ Len(reversals) = LastBar - 1
        /\ \A k \in 1..Len(reversals) :
              /\ reversals[k].index = k
              /\ reversals[k].kind = IF Above(k) THEN "peak" ELSE "trough"
              /\ reversals[k].price = CloseAt(k)
              /\ k > 1 => reversals[k].kind # reversals[k - 1].kind

\* C8 witness: closes [100, 105, 95, 110, 90] give indices 1, 2, 3 as peak,
\* trough, peak.
C8_Witness ==
    /\ pc = "rev_done"
    /\ DefaultFilters
    /\ [k \in 1..Len(candles) |-> candles[k].close] = <<100, 105, 95, 110, 90>>
    /\ [k \in 1..Len(reversals) |-> <<reversals[k].index, reversals[k].kind>>]
          = <<<<1, "peak">>, <<2, "trough">>, <<3, "peak">>>>

\* a run a..b of two or more equal closes, strictly higher or strictly lower
\* than the closes on both sides of the run
Plateau(a, b) ==
    /\ 1 <= a /\ a < b /\ b <= LastBar - 1
    /\ \A k \in a..b : CloseAt(k) = CloseAt(a)
    /\ \/ (CloseAt(a - 1) < CloseAt(a) /\ CloseAt(b + 1) < CloseAt(a))
       \/ (CloseAt(a - 1) > CloseAt(a) /\ CloseAt(b + 1) > CloseAt(a))

\* C9: with min_separation_bars = 1 and min_price_move_pct = 0 at most one
\* reversal point is reported among the bars of a flat plateau.
C9_PlateauOnce ==
    (pc = "rev_done" /\ DefaultFilters) =>
        \A a, b \in 0..LastBar :
            Plateau(a, b) =>
                Cardinality({k \in 1..Len(reversals) :
                               reversals[k].index \in a..b}) <= 1

\* a local extremum at interior index k: not below (not above) either
\* neighbour and strictly above (below) at least one of them
Extremum(k) ==
    \/ (CloseAt(k) >= CloseAt(k - 1) /\ CloseAt(k) >= CloseAt(k + 1)
        /\ (CloseAt(k) > CloseAt(k - 1) \/ CloseAt(k) > CloseAt(k + 1)))
    \/ (CloseAt(k) <= CloseAt(k - 1) /\ CloseAt(k) <= CloseAt(k + 1)
        /\ (CloseAt(k) < CloseAt(k - 1) \/ CloseAt(k) < CloseAt(k + 1)))

\* interior indices the loop has already passed
Scanned == IF pc = "rev_call" THEN {}
           ELSE {k \in Interior : k < i}

\* C10: the first local extremum of the series is always accepted; every
\* later accepted point lies at least min_separation_bars after the previously
\* accepted point and moved at least min_price_move_pct relative to that
\* point's price; the reference pivot is always the last accepted point, so
\* rejected candidates never update it.
C10_AcceptedPivots ==
    /\ (\E k \in Scanned : Extremum(k)) =>
          /\ reversals # <<>>
          /\ reversals[1].index = SetMin({k \in Scanned : Extremum(k)})
    /\ \A k \in 2..Len(reversals) :
          /\ reversals[k].index - reversals[k - 1].index >= min_separation_bars
          /\ Abs(reversals[k].price - reversals[k - 1].price) * min_price_move_pct[2]
                >= min_price_move_pct[1] * reversals[k - 1].price
    /\ \A k \in 1..Len(reversals) :
          /\ reversals[k].index \in Scanned
          /\ reversals[k].price = CloseAt(reversals[k].index)
          /\ Extremum(reversals[k].index)
    /\ last_index = IF reversals = <<>> THEN {}
                    ELSE {reversals[Len(reversals)].index}
    /\ last_pivot_price = IF reversals = <<>> THEN {}
                          ELSE {reversals[Len(reversals)].price}

AcceptedIdx == {reversals[k].index : k \in 1..Len(reversals)}

\* C10 witness: after a first accepted point two consecutive candidates were
\* both rejected for their small move from that accepted point, although the
\* second moved at least min_price_move_pct from the first rejected candidate.
C10_Witness ==
    /\ pc = "rev_done"
    /\ min_separation_bars = 1
    /\ min_price_move_pct[1] > 0
    /\ \E j, k \in Interior :
          /\ j < k
          /\ Extremum(j) /\ Extremum(k)
          /\ j \notin AcceptedIdx /\ k \notin AcceptedIdx
          /\ \E a \in AcceptedIdx : a < j /\ CloseAt(a) > 0
          /\ CloseAt(j) > 0
          /\ Abs(CloseAt(k) - CloseAt(j)) * min_price_move_pct[2]
                >= min_price_move_pct[1] * CloseAt(j)

-----------------------------------------------------------------------------
(* Exact arithmetic on <<numerator, denominator>> pairs, denominator > 0,
   standing for the floats of bands.py, indicators.py and risk_reward.py *)

Rat(x) == <<x, 1>>
RatAdd(a, b) == <<a[1] * b[2] + b[1] * a[2], a[2] * b[2]>>
RatSub(a, b) == <<a[1] * b[2] - b[1] * a[2], a[2] * b[2]>>
RatMul(a, b) == <<a[1] * b[1], a[2] * b[2]>>
RatHalf(a) == <<a[1], 2 * a[2]>>
RatAbs(a) == <<Abs(a[1]), a[2]>>
RatLe(a, b) == a[1] * b[2] <= b[1] * a[2]
RatEq(a, b) == a[1] * b[2] = b[1] * a[2]
RatMax0(a) == IF a[1] < 0 THEN <<0, 1>> ELSE a

-----------------------------------------------------------------------------
(* core/analytics/bands.py *)

Band(lo, hi, mid, points, band_type, touch_count, avg_bounce, last_ts) ==
    [lower |-> lo, upper |-> hi, mid |-> mid, points |-> points,
     band_type |-> band_type, touch_count |-> touch_count,
     avg_bounce_distance |-> avg_bounce, last_touch_ts |-> last_ts,
     projected_until_ts |-> {}]

\* abs(a - b) <= ((a + b) / 2.0) * tolerance_pct
in_tolerance(a, b, tol) ==
    LET mid == RatHalf(RatAdd(a, b))
        width == RatMul(mid, tol)
    IN  RatLe(RatAbs(RatSub(a, b)), width)

cluster_prices(cluster) == {cluster[k].price : k \in 1..Len(cluster)}

\* faulty variant: the point is compared with the cluster's highest price
merge_into_cluster_hi(cluster, point, tol) ==
    in_tolerance(Rat(point.price), Rat(SetMax(cluster_prices(cluster))), tol)

\* the test of _merge_into_cluster; the append is done by ClusterMerge
merge_into_cluster(cluster, point, tol) ==
    LET lo == SetMin(cluster_prices(cluster))
        hi == SetMax(cluster_prices(cluster))
    IN  in_tolerance(Rat(point.price), RatHalf(Rat(lo + hi)), tol)

\* faulty variant: the list is left in the order it has
sort_by_timestamp_none(ps) == ps

\* faulty variant: the points are not ordered by price before the placement
sort_by_time_only(ps) ==
    LET keyed == StableSort([k \in 1..Len(ps) |-> <<ps[k].timestamp, ps[k]>>])
    IN  [k \in 1..Len(keyed) |-> keyed[k][2]]

\* cluster.sort(key=lambda r: r.timestamp)
sort_by_timestamp(ps) ==
    LET keyed == StableSort([k \in 1..Len(ps) |-> <<ps[k].timestamp, ps[k]>>])
    IN  [k \in 1..Len(keyed) |-> keyed[k][2]]

\* sorted(reversals, key=lambda r: (r.price, r.timestamp)): a stable sort by
\* price of the list sorted by timestamp
sort_by_price_then_time(ps) ==
    LET timed == sort_by_timestamp(ps)
        keyed == StableSort([k \in 1..Len(timed) |-> <<timed[k].price, timed[k]>>])
    IN  [k \in 1..Len(keyed) |-> keyed[k][2]]

\* faulty variant: only the first pair of touches is compared
has_alternating_touches_first(points) ==
    Len(points) >= 2 /\ points[1].kind # points[2].kind

has_alternating_touches(points) ==
    /\ Len(points) >= 2
    /\ \A k \in 1..(Len(points) - 1) : points[k].kind # points[k + 1].kind

\* faulty variant: the band is classified by its first interaction
classify_band_first(points) ==
    IF points[1].kind = "trough" THEN "support" ELSE "resistance"

classify_band(points) ==
    IF points[Len(points)].kind = "trough" THEN "support" ELSE "resistance"

\* (lo, hi, mid)
band_bounds(points) ==
    LET lo == SetMin(cluster_prices(points))
        hi == SetMax(cluster_prices(points))
    IN  <<lo, hi, RatHalf(Rat(lo + hi))>>

RECURSIVE sum_bounce(_, _)
sum_bounce(points, mid) ==
    IF points = <<>> THEN <<0, 1>>
    ELSE RatAdd(RatAbs(RatSub(Rat(Head(points).price), mid)),
                sum_bounce(Tail(points), mid))

avg_bounce_distance(points, mid) ==
    IF points = <<>> THEN <<0, 1>>
    ELSE LET total == sum_bounce(points, mid)
         IN  <<total[1], total[2] * Len(points)>>

\* the band of one cluster that passed both tests of build_bands
band_of_cluster(cluster) ==
    LET b == band_bounds(cluster)
    IN  Band(b[1], b[2], b[3], cluster, classify_band(cluster), Len(cluster),
             avg_bounce_distance(cluster, b[3]),
             SetMax({cluster[k].timestamp : k \in 1..Len(cluster)}))

\* the for loop of build_bands
RECURSIVE build_loop(_, _)
build_loop(cs, touches) ==
    IF cs = <<>> THEN <<>>
    ELSE IF Len(Head(cs)) < touches THEN build_loop(Tail(cs), touches)
    ELSE IF ~has_alternating_touches(Head(cs)) THEN build_loop(Tail(cs), touches)
    ELSE <<band_of_cluster(Head(cs))>> \o build_loop(Tail(cs), touches)

\* reversal points as detect_reversals emits them: bar indices increase along
\* the list and timestamps are the bars' start times
PointLists ==
    {[k \in 1..Len(pk) |->
         ReversalPoint(k, k * FOUR_HOURS_SECONDS, pk[k][1], pk[k][2], <<0, 1>>)] :
        pk \in SeqsUpTo(PointPrices \X Kinds, MaxPoints)}

InitBands ==
    /\ pc = "bands_call"
    /\ ServiceIdle /\ BusIdle /\ AgentIdle
    /\ reversals \in PointLists
    /\ tolerance_pct \in Tolerances
    /\ min_touches \in MinTouches
    /\ sorted_points = <<>>
    /\ clusters = <<>>
    /\ ci = 0
    /\ bands = <<>>
    /\ top_n_per_type = 0
    /\ best = <<>>
    /\ IndicatorsIdle
    /\ candles = <<>>
    /\ min_separation_bars = 1
    /\ min_price_move_pct = <<0, 1>>
    /\ i = 0
    /\ last_pivot_price = {}
    /\ last_index = {}
    /\ step = "idle"
    /\ error = "none"
    /\ updates = <<>>
    /\ start_time = 0
    /\ end_time = 0
    /\ aggregated = <<>>
    /\ full = <<>>
    /\ expected_count = 0
    /\ minimum_unique = 0
    /\ ok = FALSE
    /\ reasons = <<>>

\* cluster_reversals: if not reversals: return []
ClusterEmpty ==
    /\ pc = "bands_call"
    /\ reversals = <<>>
    /\ pc' = "clustered"
    /\ clusters' = <<>>
    /\ UNCHANGED <<tolerance_pct, min_touches, sorted_points, ci, bands,
                   top_n_per_type, best>>
    /\ UNCHANGED <<ohlcVars, revVars, indVars, error>>
    /\ UNCHANGED extVars

\* cluster_reversals: sort the points and start the placement loop
ClusterEnter ==
    /\ pc = "bands_call"
    /\ reversals # <<>>
    /\ pc' = "cluster_loop"
    /\ sorted_points' = sort_by_price_then_time(reversals)
    /\ clusters' = <<>>
    /\ ci' = 0
    /\ UNCHANGED <<tolerance_pct, min_touches, bands, top_n_per_type, best>>
    /\ UNCHANGED <<ohlcVars, revVars, indVars, error>>
    /\ UNCHANGED extVars

\* clusters that accept the point under placement
Accepting ==
    {j \in 1..Len(clusters) :
        merge_into_cluster(clusters[j], sorted_points[ci + 1], tolerance_pct)}

\* one iteration of the placement loop: the first accepting cluster takes pt
ClusterMerge ==
    /\ pc = "cluster_loop"
    /\ ci < Len(sorted_points)
    /\ Accepting # {}
    /\ clusters' = [clusters EXCEPT ![SetMin(Accepting)] =
                        Append(@, sorted_points[ci + 1])]
    /\ ci' = ci + 1
    /\ UNCHANGED <<pc, tolerance_pct, min_touches, sorted_points, bands,
                   top_n_per_type, best>>
    /\ UNCHANGED <<ohlcVars, revVars, indVars, error>>
    /\ UNCHANGED extVars

\* one iteration of the placement loop: no cluster accepts, pt opens a new one
ClusterNew ==
    /\ pc = "cluster_loop"
    /\ ci < Len(sorted_points)
    /\ Accepting = {}
    /\ clusters' = Append(clusters, <<sorted_points[ci + 1]>>)
    /\ ci' = ci + 1
    /\ UNCHANGED <<pc, tolerance_pct, min_touches, sorted_points, bands,
                   top_n_per_type, best>>
    /\ UNCHANGED <<ohlcVars, revVars, indVars, error>>
    /\ UNCHANGED extVars

\* after the loop: every cluster is put in chronological order and returned
ClusterSort ==
    /\ pc = "cluster_loop"
    /\ ci = Len(sorted_points)
    /\ pc' = "clustered"
    /\ clusters' = [j \in 1..Len(clusters) |-> sort_by_timestamp(clusters[j])]
    /\ UNCHANGED <<tolerance_pct, min_touches, sorted_points, ci, bands,
                   top_n_per_type, best>>
    /\ UNCHANGED <<ohlcVars, revVars, indVars, error>>
    /\ UNCHANGED extVars

\* build_bands after cluster_reversals returned
BuildBands ==
    /\ pc = "clustered"
    /\ pc' = "bands_done"
    /\ bands' = build_loop(clusters, min_touches)
    /\ UNCHANGED <<tolerance_pct, min_touches, sorted_points, clusters, ci,
                   top_n_per_type, best>>
    /\ UNCHANGED <<ohlcVars, revVars, indVars, error>>
    /\ UNCHANGED extVars

NextBands == \/ ClusterEmpty \/ ClusterEnter \/ ClusterMerge \/ ClusterNew
             \/ ClusterSort \/ BuildBands

SpecBands == InitBands /\ [][NextBands]_vars

-----------------------------------------------------------------------------
(* Clustering and band construction *)

\* the placement loop appends a point to cluster j in this step
MergedInto(j) ==
    /\ pc = "cluster_loop"
    /\ pc' = "cluster_loop"
    /\ Len(clusters') = Len(clusters)
    /\ j \in 1..Len(clusters)
    /\ Len(clusters'[j]) = Len(clusters[j]) + 1

\* twice the midpoint of cluster j before the step, and the appended price
TwiceMid(j) == SetMin(cluster_prices(clusters[j])) + SetMax(cluster_prices(clusters[j]))
Appended(j) == clusters'[j][Len(clusters'[j])].price

Chronological(points) ==
    \A k \in 1..(Len(points) - 1) : points[k].timestamp <= points[k + 1].timestamp

SameKindPair(points) ==
    \E k \in 1..(Len(points) - 1) : points[k].kind = points[k + 1].kind

BandPoints == {bands[k].points : k \in 1..Len(bands)}

\* C12: every band returned by build_bands has touch_count >= min_touches and
\* chronologically ordered members of which no two adjacent ones share a kind;
\* a cluster with fewer than min_touches members or with an adjacent pair of
\* the same kind yields no band.
C12_BandsAlternate ==
    pc = "bands_done" =>
        /\ \A k \in 1..Len(bands) :
              /\ bands[k].touch_count >= min_touches
              /\ Chronological(bands[k].points)
              /\ ~SameKindPair(bands[k].points)
        /\ \A j \in 1..Len(clusters) :
              (Len(clusters[j]) < min_touches \/ SameKindPair(clusters[j]))
                  => clusters[j] \notin BandPoints

\* C12 witness: one cluster of at least min_touches alternating members became
\* a band while another cluster, too small, yielded none.
C12_Witness ==
    /\ pc = "bands_done"
    /\ Len(bands) = 1
    /\ Len(clusters) = 2
    /\ \E j \in 1..2 : Len(clusters[j]) < min_touches

\* C12, second case: a cluster of min_touches = 3 members whose first two
\* touches alternate and whose last two share a kind yielded no band.
C12_SameKindWitness ==
    /\ pc = "bands_done"
    /\ min_touches = 3
    /\ bands = <<>>
    /\ \E j \in 1..Len(clusters) :
          /\ Len(clusters[j]) = 3
          /\ clusters[j][1].kind # clusters[j][2].kind
          /\ clusters[j][2].kind = clusters[j][3].kind

LastTouched(points) ==
    CHOOSE p \in Range(points) : \A q \in Range(points) : q.timestamp <= p.timestamp

\* C13: every band has lower = the minimum member price, upper = the maximum,
\* mid = (lower + upper) / 2, touch_count = the number of members,
\* last_touch_ts = the latest member timestamp, and is a support band when its
\* chronologically last member is a trough and a resistance band when it is a
\* peak.
C13_BandFields ==
    pc = "bands_done" =>
        \A k \in 1..Len(bands) :
            LET b == bands[k]
                prices == {p.price : p \in Range(b.points)}
            IN  /\ b.lower \in prices /\ \A x \in prices : b.lower <= x
                /\ b.upper \in prices /\ \A x \in prices : b.upper >= x
                /\ b.mid[1] * 2 = (b.lower + b.upper) * b.mid[2]
                /\ b.touch_count = Len(b.points)
                /\ \E p \in Range(b.points) : p.timestamp = b.last_touch_ts
                /\ \A p \in Range(b.points) : p.timestamp <= b.last_touch_ts
                /\ LastTouched(b.points).kind = "trough" => b.band_type = "support"
                /\ LastTouched(b.points).kind = "peak" => b.band_type = "resistance"

\* C13 witness: a support band of two members at different prices whose
\* chronologically first member is a peak at the band's upper bound.
C13_Witness ==
    /\ pc = "bands_done"
    /\ \E k \in 1..Len(bands) :
          /\ bands[k].touch_count = 2
          /\ bands[k].lower < bands[k].upper
          /\ bands[k].band_type = "support"
          /\ bands[k].points[1].kind = "peak"
          /\ bands[k].points[1].price = bands[k].upper

-----------------------------------------------------------------------------
(* core/analytics/bands.py: rank_bands *)

\* faulty variant: the touch count does not enter the score
score_key_recency(b, min_ts, span) == b.last_touch_ts - min_ts

\* score(b) = touch_count + 0.5 * (last_touch_ts - min_ts) / span, held as its
\* numerator over the common denominator 2 * span
score_key(b, min_ts, span) ==
    2 * b.touch_count * span + (b.last_touch_ts - min_ts)

\* filtered.sort(key=score, reverse=True): stable, descending
sort_by_score_desc(bs, min_ts, span) ==
    LET keyed == StableSort([k \in 1..Len(bs) |->
                                <<-score_key(bs[k], min_ts, span), bs[k]>>])
    IN  [k \in 1..Len(keyed) |-> keyed[k][2]]

\* [b for b in bands if b.band_type == band_type]
RECURSIVE filter_type(_, _)
filter_type(bs, band_type) ==
    IF bs = <<>> THEN <<>>
    ELSE IF Head(bs).band_type = band_type
         THEN <<Head(bs)>> \o filter_type(Tail(bs), band_type)
         ELSE filter_type(Tail(bs), band_type)

\* filtered[:top_n_per_type]
take(bs, n) == SubSeq(bs, 1, IF n < Len(bs) THEN n ELSE Len(bs))

\* position of a band type in string order
type_order(band_type) == IF band_type = "resistance" THEN 0 ELSE 1

\* best.sort(key=lambda b: (b.band_type, -b.last_touch_ts)): a stable sort by
\* type of the list sorted by descending last_touch_ts
sort_by_type_then_recency(bs) ==
    LET timed == StableSort([k \in 1..Len(bs) |-> <<-bs[k].last_touch_ts, bs[k]>>])
        typed == StableSort([k \in 1..Len(timed) |->
                                <<type_order(timed[k][2].band_type), timed[k][2]>>])
    IN  [k \in 1..Len(typed) |-> typed[k][2]]

rank_bands(bs, top_n) ==
    IF bs = <<>> THEN <<>>
    ELSE LET max_ts == SetMax({bs[k].last_touch_ts : k \in 1..Len(bs)})
             min_ts == SetMin({bs[k].last_touch_ts : k \in 1..Len(bs)})
             span == IF max_ts - min_ts > 1 THEN max_ts - min_ts ELSE 1
             top(band_type) ==
                 take(sort_by_score_desc(filter_type(bs, band_type), min_ts, span),
                      top_n)
         IN  sort_by_type_then_recency(top("support") \o top("resistance"))

\* bands as the repository's tests hand them to rank_bands: bounds and points
\* play no part in the ranking
RankedBand(band_type, touch_count, last_ts) ==
    Band(100, 102, <<202, 2>>, <<>>, band_type, touch_count, <<0, 1>>, last_ts)

BandLists ==
    SeqsUpTo({RankedBand(t, c, ts) :
                 t \in BandTypes, c \in TouchCounts, ts \in TouchTimes}, MaxBands)

InitRank ==
    /\ pc = "rank_call"
    /\ ServiceIdle /\ BusIdle /\ AgentIdle
    /\ bands \in BandLists
    /\ top_n_per_type \in TopNs
    /\ best = <<>>
    /\ tolerance_pct = <<0, 1>>
    /\ min_touches = 0
    /\ sorted_points = <<>>
    /\ clusters = <<>>
    /\ ci = 0
    /\ IndicatorsIdle
    /\ candles = <<>>
    /\ min_separation_bars = 1
    /\ min_price_move_pct = <<0, 1>>
    /\ i = 0
    /\ reversals = <<>>
    /\ last_pivot_price = {}
    /\ last_index = {}
    /\ step = "idle"
    /\ error = "none"
    /\ updates = <<>>
    /\ start_time = 0
    /\ end_time = 0
    /\ aggregated = <<>>
    /\ full = <<>>
    /\ expected_count = 0
    /\ minimum_unique = 0
    /\ ok = FALSE
    /\ reasons = <<>>

\* rank_bands: if not bands: return []
RankEmpty ==
    /\ pc = "rank_call"
    /\ bands = <<>>
    /\ pc' = "rank_done"
    /\ best' = <<>>
    /\ UNCHANGED <<tolerance_pct, min_touches, sorted_points, clusters, ci,
                   bands, top_n_per_type>>
    /\ UNCHANGED <<ohlcVars, revVars, indVars, error>>
    /\ UNCHANGED extVars

CallRank ==
    /\ pc = "rank_call"
    /\ bands # <<>>
    /\ pc' = "rank_done"
    /\ best' = rank_bands(bands, top_n_per_type)
    /\ UNCHANGED <<tolerance_pct, min_touches, sorted_points, clusters, ci,
                   bands, top_n_per_type>>
    /\ UNCHANGED <<ohlcVars, revVars, indVars, error>>
    /\ UNCHANGED extVars

NextRank == RankEmpty \/ CallRank

SpecRank == InitRank /\ [][NextRank]_vars

\* occurrences of x in the list s
CountOf(s, x) == Cardinality({k \in 1..Len(s) : s[k] = x})

\* input bands of which rank_bands returned fewer copies than it was given
Dropped == {x \in Range(bands) : CountOf(best, x) < CountOf(bands, x)}

OldestTouch == SetMin({bands[k].last_touch_ts : k \in 1..Len(bands)})
NewestTouch == SetMax({bands[k].last_touch_ts : k \in 1..Len(bands)})

\* score(x) < score(y) for score = touch_count + 0.5 * r,
\* r = (last_touch_ts - min_ts) / (max_ts - min_ts), or 0 for equal max and min
ScoreBelow(x, y) ==
    IF NewestTouch = OldestTouch THEN x.touch_count < y.touch_count
    ELSE 2 * x.touch_count * (NewestTouch - OldestTouch)
             + (x.last_touch_ts - OldestTouch)
         < 2 * y.touch_count * (NewestTouch - OldestTouch)
             + (y.last_touch_ts - OldestTouch)

\* C14: rank_bands returns only bands of its input, at most top_n_per_type of
\* each type, chosen by score = touch_count + 0.5 * r; no dropped band has a
\* strictly higher score than a kept band of the same type, so a band with
\* strictly more touches is never dropped for one with fewer; the result is
\* ordered by type and within a type by descending last_touch_ts.
C14_Ranking ==
    pc = "rank_done" =>
        /\ \A x \in Range(best) : CountOf(best, x) <= CountOf(bands, x)
        /\ \A t \in BandTypes :
              Cardinality({k \in 1..Len(best) : best[k].band_type = t})
                  <= top_n_per_type
        /\ \A x \in Dropped : \A y \in Range(best) :
              x.band_type = y.band_type =>
                  /\ ~ScoreBelow(y, x)
                  /\ ~(x.touch_count > y.touch_count)
        /\ \A k \in 1..(Len(best) - 1) :
              /\ ~(best[k].band_type = "support"
                     /\ best[k + 1].band_type = "resistance")
              /\ best[k].band_type = best[k + 1].band_type
                    => best[k].last_touch_ts >= best[k + 1].last_touch_ts

\* C14 witness: of three bands of one type the top two were kept; the dropped
\* one is more recent than a kept band that has more touches, and the two kept
\* are returned most recent first, against their order by score.
C14_Witness ==
    /\ pc = "rank_done"
    /\ top_n_per_type = 2
    /\ Len(bands) = 3
    /\ Len(best) = 2
    /\ \E x \in Dropped :
          /\ \A y \in Range(best) : y.band_type = x.band_type
          /\ best[2].touch_count > x.touch_count
          /\ best[2].last_touch_ts < x.last_touch_ts
    /\ best[1].last_touch_ts > best[2].last_touch_ts
    /\ best[1].touch_count < best[2].touch_count

-----------------------------------------------------------------------------
(* core/analytics/indicators.py *)

RECURSIVE GCD(_, _)
GCD(a, b) == IF b = 0 THEN a ELSE GCD(b, a % b)

\* the same number in lowest terms
RatNorm(a) ==
    LET g == GCD(Abs(a[1]), a[2])
    IN  <<a[1] \div g, a[2] \div g>>

\* a / b for b > 0
RatDiv(a, b) == RatNorm(<<a[1] * b[2], a[2] * b[1]>>)

\* float("nan")
NaN == <<>>

\* faulty variant: a non-positive period is not turned away
returns_early_unchecked(n, p) == n = 0 \/ n < p + 1

\* if n == 0 or period <= 0 or n < period + 1: return rsi
returns_early(n, p) == n = 0 \/ p <= 0 \/ n < p + 1

\* gains[k] and losses[k] for the 0-based index k >= 1
gain_at(closes, k) ==
    IF closes[k + 1] - closes[k] > 0 THEN closes[k + 1] - closes[k] ELSE 0
loss_at(closes, k) ==
    IF closes[k] - closes[k + 1] > 0 THEN closes[k] - closes[k + 1] ELSE 0

RECURSIVE sum_gains(_, _, _)
sum_gains(closes, from, to) ==
    IF from > to THEN 0
    ELSE gain_at(closes, from) + sum_gains(closes, from + 1, to)

RECURSIVE sum_losses(_, _, _)
sum_losses(closes, from, to) ==
    IF from > to THEN 0
    ELSE loss_at(closes, from) + sum_losses(closes, from + 1, to)

\* (avg * (period - 1) + x) / period
smooth(avg, x, p) ==
    RatNorm(<<avg[1] * (p - 1) + x * avg[2], avg[2] * p>>)

\* avg_gain when rsi[k] is written, k >= period (0-based)
RECURSIVE avg_gain_at(_, _, _)
avg_gain_at(closes, p, k) ==
    IF k = p THEN RatNorm(<<sum_gains(closes, 1, p), p>>)
    ELSE smooth(avg_gain_at(closes, p, k - 1), gain_at(closes, k), p)

\* avg_loss when rsi[k] is written, k >= period (0-based)
RECURSIVE avg_loss_at(_, _, _)
avg_loss_at(closes, p, k) ==
    IF k = p THEN RatNorm(<<sum_losses(closes, 1, p), p>>)
    ELSE smooth(avg_loss_at(closes, p, k - 1), loss_at(closes, k), p)

\* faulty variant: a flat series (no gain, no loss) is given the neutral 50
rsi_value_flat50(avg_gain, avg_loss) ==
    IF avg_loss[1] = 0 THEN (IF avg_gain[1] = 0 THEN <<50, 1>> ELSE <<100, 1>>)
    ELSE RatNorm(RatSub(<<100, 1>>,
                        RatDiv(<<100, 1>>,
                               RatAdd(<<1, 1>>, RatDiv(avg_gain, avg_loss)))))

\* 100.0 if avg_loss == 0 else 100.0 - (100.0 / (1.0 + avg_gain / avg_loss))
rsi_value(avg_gain, avg_loss) ==
    IF avg_loss[1] = 0 THEN <<100, 1>>
    ELSE RatNorm(RatSub(<<100, 1>>,
                        RatDiv(<<100, 1>>,
                               RatAdd(<<1, 1>>, RatDiv(avg_gain, avg_loss)))))

\* the divisions of _wilder_rsi_from_closes past the early return: by period,
\* by avg_loss (guarded) and by 1.0 + rs
divides_by_zero(closes, p) == p = 0

wilder_rsi_from_closes(closes, p) ==
    IF returns_early(Len(closes), p) THEN [k \in 1..Len(closes) |-> NaN]
    ELSE [k \in 1..Len(closes) |->
             IF k - 1 < p THEN NaN
             ELSE rsi_value(avg_gain_at(closes, p, k - 1),
                            avg_loss_at(closes, p, k - 1))]

\* closes = [c.close for c in candles]
closes_of(cs) == [k \in 1..Len(cs) |-> cs[k].close]

InitRsi ==
    /\ pc = "rsi_call"
    /\ ServiceIdle /\ BusIdle /\ AgentIdle
    /\ \E cl \in SeqsUpTo(RsiCloses, MaxBars) : candles = BarsOfCloses(cl)
    /\ period \in Periods
    /\ rsi = <<>>
    /\ entry_at = "mid"
    /\ stop_buffer_pct = <<0, 1>>
    /\ max_position_pct = <<0, 1>>
    /\ suggestions = <<>>
    /\ BandsIdle
    /\ min_separation_bars = 1
    /\ min_price_move_pct = <<0, 1>>
    /\ i = 0
    /\ reversals = <<>>
    /\ last_pivot_price = {}
    /\ last_index = {}
    /\ step = "idle"
    /\ error = "none"
    /\ updates = <<>>
    /\ start_time = 0
    /\ end_time = 0
    /\ aggregated = <<>>
    /\ full = <<>>
    /\ expected_count = 0
    /\ minimum_unique = 0
    /\ ok = FALSE
    /\ reasons = <<>>

\* rsi_from_candles on a series the engine turns away: all entries nan
RsiEarlyReturn ==
    /\ pc = "rsi_call"
    /\ returns_early(Len(candles), period)
    /\ pc' = "rsi_done"
    /\ rsi' = wilder_rsi_from_closes(closes_of(candles), period)
    /\ error' = "none"
    /\ UNCHANGED <<period, entry_at, stop_buffer_pct, max_position_pct,
                   suggestions>>
    /\ UNCHANGED <<ohlcVars, revVars, bandVars>>
    /\ UNCHANGED extVars

\* rsi_from_candles on a series of at least period + 1 closes
RsiCompute ==
    /\ pc = "rsi_call"
    /\ ~returns_early(Len(candles), period)
    /\ pc' = "rsi_done"
    /\ IF divides_by_zero(closes_of(candles), period)
       THEN rsi' = rsi /\ error' = "ZeroDivisionError"
       ELSE /\ rsi' = wilder_rsi_from_closes(closes_of(candles), period)
            /\ error' = "none"
    /\ UNCHANGED <<period, entry_at, stop_buffer_pct, max_position_pct,
                   suggestions>>
    /\ UNCHANGED <<ohlcVars, revVars, bandVars>>
    /\ UNCHANGED extVars

NextRsi == RsiEarlyReturn \/ RsiCompute

SpecRsi == InitRsi /\ [][NextRsi]_vars

-----------------------------------------------------------------------------
(* Momentum (RSI) *)

RsiDone == pc = "rsi_done"
NumCloses == Len(candles)
Defined(k) == rsi[k] # NaN

AllEqual == \A k \in 1..(NumCloses - 1) : candles[k].close = candles[k + 1].close
StrictlyDecreasing ==
    \A k \in 1..(NumCloses - 1) : candles[k].close > candles[k + 1].close

\* C15: the momentum engine never raises and returns one entry per close; for
\* n closes and a period p >= 1 every entry is undefined when n < p + 1, and
\* otherwise exactly the entries at (0-based) indices 0..p-1 are undefined.
C15_Definedness ==
    RsiDone =>
        /\ error = "none"
        /\ Len(rsi) = NumCloses
        /\ period >= 1 =>
              IF NumCloses < period + 1
              THEN \A k \in 1..NumCloses : ~Defined(k)
              ELSE \A k \in 1..NumCloses : Defined(k) <=> (k - 1 >= period)

\* C15 witness: a period of 2 over at least four closes gave two undefined
\* entries followed by defined ones, one of them strictly between 0 and 100.
C15_Witness ==
    /\ RsiDone
    /\ period = 2
    /\ NumCloses >= 4
    /\ ~Defined(2)
    /\ Defined(3)
    /\ \E k \in 3..NumCloses :
          rsi[k][1] > 0 /\ rsi[k][1] < 100 * rsi[k][2]

\* C16: for a series of at least p + 1 closes, if all closes are equal the RSI
\* at index p is 100, and if the closes are strictly decreasing the RSI is 0 at
\* every defined index.
C16_FlatAndFalling ==
    (RsiDone /\ period >= 1 /\ NumCloses >= period + 1) =>
        /\ AllEqual => rsi[period + 1] = <<100, 1>>
        /\ StrictlyDecreasing =>
              \A k \in 1..NumCloses : Defined(k) => rsi[k][1] = 0

\* C16 witness: four strictly decreasing closes with a period of 2 gave two
\* defined entries, both 0.
C16_Witness ==
    /\ RsiDone
    /\ period = 2
    /\ NumCloses = 4
    /\ StrictlyDecreasing
    /\ Defined(3) /\ Defined(4)
    /\ rsi[3][1] = 0 /\ rsi[4][1] = 0

\* C16, first case: at least three equal closes with a period of 2 gave 100 at
\* index 2.
C16_FlatWitness ==
    /\ RsiDone
    /\ period = 2
    /\ NumCloses >= 3
    /\ AllEqual
    /\ rsi[3] = <<100, 1>>

\* C17 in exact arithmetic: every defined RSI value v satisfies 0 <= v <= 100,
\* and v = 100 exactly when the smoothed average loss is 0.
C17_ExactRange ==
    (RsiDone /\ period >= 1) =>
        \A k \in 1..NumCloses :
            Defined(k) =>
                /\ rsi[k][1] >= 0
                /\ rsi[k][1] <= 100 * rsi[k][2]
                /\ (rsi[k][1] = 100 * rsi[k][2])
                      <=> (avg_loss_at(closes_of(candles), period, k - 1)[1] = 0)

-----------------------------------------------------------------------------
(* core/analytics/risk_reward.py *)

RRSuggestion(band_type, entry, stop, take_profit, risk, reward, rr, pct, target) ==
    [band_type |-> band_type, entry_price |-> entry, stop_price |-> stop,
     take_profit_price |-> take_profit, risk |-> risk, reward |-> reward,
     rr_ratio |-> rr, recommended_position_pct |-> pct,
     target_band_mid |-> target]

\* float("inf")
Inf == <<1, 0>>

\* abs(b.mid - band.mid)
mid_distance(b, band) == RatAbs(RatSub(b.mid, band.mid))

\* candidates = [b for b in others if b.band_type != band.band_type]
candidates(band, others) ==
    {k \in 1..Len(others) : others[k].band_type # band.band_type}

\* faulty variant: the first band of the other type is taken
nearest_opposite_band_first(band, others) ==
    IF candidates(band, others) = {} THEN {}
    ELSE {others[SetMin(candidates(band, others))]}

\* min(candidates, key=...): the first of the closest; {} for None
nearest_opposite_band(band, others) ==
    LET cands == candidates(band, others)
        closest == {k \in cands :
                       \A j \in cands :
                           RatLe(mid_distance(others[k], band),
                                 mid_distance(others[j], band))}
    IN  IF cands = {} THEN {} ELSE {others[SetMin(closest)]}

\* faulty variant: the entry is always taken at the band's boundary
entry_price_boundary(band, mode) ==
    IF band.band_type = "support" THEN Rat(band.lower) ELSE Rat(band.upper)

entry_price(band, mode) ==
    IF band.band_type = "support"
    THEN (IF mode = "lower" THEN Rat(band.lower) ELSE band.mid)
    ELSE (IF mode = "upper" THEN Rat(band.upper) ELSE band.mid)

stop_price(band, buffer) ==
    IF band.band_type = "support"
    THEN RatMul(Rat(band.lower), RatSub(<<1, 1>>, buffer))
    ELSE RatMul(Rat(band.upper), RatAdd(<<1, 1>>, buffer))

risk_of(band, entry, stop) ==
    IF band.band_type = "support"
    THEN RatMax0(RatSub(entry, stop))
    ELSE RatMax0(RatSub(stop, entry))

\* faulty variant: the reward is not floored at 0
reward_unclamped(band, entry, take_profit) ==
    IF band.band_type = "support"
    THEN RatSub(take_profit, entry)
    ELSE RatSub(entry, take_profit)

reward_of(band, entry, take_profit) ==
    IF band.band_type = "support"
    THEN RatMax0(RatSub(take_profit, entry))
    ELSE RatMax0(RatSub(entry, take_profit))

\* (reward / risk) if risk > 0 else float("inf")
rr_ratio(reward, risk) == IF risk[1] > 0 THEN RatDiv(reward, risk) ELSE Inf

\* the suggestion appended for a band whose nearest opposite band is opposite
suggestion_for(band, opposite, mode, buffer, pct) ==
    LET entry == entry_price(band, mode)
        stop == stop_price(band, buffer)
        take_profit == opposite.mid
        risk == risk_of(band, entry, stop)
        reward == reward_of(band, entry, take_profit)
    IN  RRSuggestion(band.band_type, entry, stop, take_profit, risk, reward,
                     rr_ratio(reward, risk), pct, opposite.mid)

\* the for loop of compute_rr_suggestions over rest, a suffix of bs
RECURSIVE rr_loop(_, _, _, _, _)
rr_loop(rest, bs, mode, buffer, pct) ==
    IF rest = <<>> THEN <<>>
    ELSE LET opposite == nearest_opposite_band(Head(rest), bs)
         IN  IF opposite = {} THEN rr_loop(Tail(rest), bs, mode, buffer, pct)
             ELSE <<suggestion_for(Head(rest), CHOOSE o \in opposite : TRUE,
                                   mode, buffer, pct)>>
                  \o rr_loop(Tail(rest), bs, mode, buffer, pct)

compute_rr_suggestions(bs, mode, buffer, pct) == rr_loop(bs, bs, mode, buffer, pct)

\* bands as build_bands shapes them: mid = (lower + upper) / 2
PricedBand(bounds, band_type) ==
    Band(bounds[1], bounds[2], RatHalf(Rat(bounds[1] + bounds[2])), <<>>,
         band_type, 3, <<0, 1>>, 0)

PricedBandLists ==
    SeqsUpTo({PricedBand(b, t) : b \in BandBounds, t \in BandTypes}, MaxBands)

InitRR ==
    /\ pc = "rr_call"
    /\ ServiceIdle /\ BusIdle /\ AgentIdle
    /\ bands \in PricedBandLists
    /\ entry_at \in EntryModes
    /\ stop_buffer_pct \in StopBuffers
    /\ max_position_pct \in PositionPcts
    /\ suggestions = <<>>
    /\ period = 0
    /\ rsi = <<>>
    /\ tolerance_pct = <<0, 1>>
    /\ min_touches = 0
    /\ sorted_points = <<>>
    /\ clusters = <<>>
    /\ ci = 0
    /\ top_n_per_type = 0
    /\ best = <<>>
    /\ candles = <<>>
    /\ min_separation_bars = 1
    /\ min_price_move_pct = <<0, 1>>
    /\ i = 0
    /\ reversals = <<>>
    /\ last_pivot_price = {}
    /\ last_index = {}
    /\ step = "idle"
    /\ error = "none"
    /\ updates = <<>>
    /\ start_time = 0
    /\ end_time = 0
    /\ aggregated = <<>>
    /\ full = <<>>
    /\ expected_count = 0
    /\ minimum_unique = 0
    /\ ok = FALSE
    /\ reasons = <<>>

CallRR ==
    /\ pc = "rr_call"
    /\ pc' = "rr_done"
    /\ suggestions' = compute_rr_suggestions(bands, entry_at, stop_buffer_pct,
                                             max_position_pct)
    /\ UNCHANGED <<period, rsi, entry_at, stop_buffer_pct, max_position_pct>>
    /\ UNCHANGED <<ohlcVars, revVars, bandVars, error>>
    /\ UNCHANGED extVars

NextRR == CallRR

SpecRR == InitRR /\ [][NextRR]_vars

-----------------------------------------------------------------------------
(* Risk/reward suggestions *)

RRDone == pc = "rr_done"

\* bands of the other type than bands[k]
Opposites(k) == {j \in 1..Len(bands) : bands[j].band_type # bands[k].band_type}

\* the bands that have a band of the other type, in band order
Eligible == SortedSet({k \in 1..Len(bands) : Opposites(k) # {}})

\* |mid of bands[j] - mid of bands[k]| as a rational
MidGap(j, k) == RatAbs(RatSub(bands[j].mid, bands[k].mid))

\* the opposite bands closest to bands[k] by mid price
Nearest(k) ==
    {j \in Opposites(k) : \A h \in Opposites(k) : RatLe(MidGap(j, k), MidGap(h, k))}

\* C18: compute_rr_suggestions emits, in band order, exactly one suggestion for
\* each band that has at least one band of the opposite type and none for the
\* others; the suggestion's target and take-profit equal the mid of the
\* opposite-type band with the smallest |mid difference|, and its
\* recommended_position_pct is the caller's max_position_pct.
C18_Suggestions ==
    RRDone =>
        /\ Len(suggestions) = Len(Eligible)
        /\ \A n \in 1..Len(suggestions) :
              /\ suggestions[n].band_type = bands[Eligible[n]].band_type
              /\ \E j \in Nearest(Eligible[n]) :
                    /\ RatEq(suggestions[n].target_band_mid, bands[j].mid)
                    /\ RatEq(suggestions[n].take_profit_price, bands[j].mid)
              /\ suggestions[n].recommended_position_pct = max_position_pct

\* C18 witness: three bands gave three suggestions; the first band has two
\* bands of the opposite type at different distances and its target is the
\* mid of the nearer one, which comes later in the list.
C18_Witness ==
    /\ RRDone
    /\ Len(bands) = 3
    /\ Len(suggestions) = 3
    /\ Opposites(1) = {2, 3}
    /\ RatLess(MidGap(3, 1), MidGap(2, 1))
    /\ suggestions[1].target_band_mid = bands[3].mid

\* C18, second case: bands of one type only gave no suggestion.
C18_NoneWitness ==
    /\ RRDone
    /\ Len(bands) >= 2
    /\ \A k \in 1..Len(bands) : Opposites(k) = {}
    /\ suggestions = <<>>

\* the stop the claim states for bands[k]
StatedStop(k) ==
    IF bands[k].band_type = "support"
    THEN RatMul(Rat(bands[k].lower), RatSub(<<1, 1>>, stop_buffer_pct))
    ELSE RatMul(Rat(bands[k].upper), RatAdd(<<1, 1>>, stop_buffer_pct))

\* entry - stop for a support band, stop - entry for a resistance band
StatedRisk(k, sg) ==
    IF bands[k].band_type = "support"
    THEN RatSub(sg.entry_price, sg.stop_price)
    ELSE RatSub(sg.stop_price, sg.entry_price)

\* target - entry for a support band, entry - target for a resistance band
StatedReward(k, sg) ==
    IF bands[k].band_type = "support"
    THEN RatSub(sg.take_profit_price, sg.entry_price)
    ELSE RatSub(sg.entry_price, sg.take_profit_price)

Floored(x) == IF x[1] < 0 THEN <<0, 1>> ELSE x

\* rr_ratio = reward / risk, or +infinity when risk = 0
RatioOf(sg) ==
    IF sg.risk[1] = 0 THEN sg.rr_ratio = Inf
    ELSE /\ sg.rr_ratio # Inf
         /\ sg.rr_ratio[1] * sg.risk[1] * sg.reward[2]
               = sg.reward[1] * sg.risk[2] * sg.rr_ratio[2]

\* C19 as stated: for a support band stop = lower * (1 - buffer),
\* risk = entry - stop and reward = target - entry; for a resistance band
\* stop = upper * (1 + buffer), risk = stop - entry and reward = entry - target;
\* rr_ratio = reward / risk, or +infinity when risk = 0, also when the nearest
\* opposite band lies on the far side of the entry.
C19_Original ==
    RRDone =>
        \A n \in 1..Len(suggestions) :
            LET sg == suggestions[n]
                k == Eligible[n]
            IN  /\ RatEq(sg.stop_price, StatedStop(k))
                /\ RatEq(sg.risk, StatedRisk(k, sg))
                /\ RatEq(sg.reward, StatedReward(k, sg))
                /\ RatioOf(sg)

\* C19 amended: stop is as stated; risk = max(0, entry - stop) and
\* reward = max(0, target - entry) for a support band, risk = max(0, stop - entry)
\* and reward = max(0, entry - target) for a resistance band: both are floored
\* at 0, so a target on the far side of the entry gives reward 0 and
\* rr_ratio 0; rr_ratio = reward / risk, or +infinity when risk = 0.
C19_Amended ==
    RRDone =>
        \A n \in 1..Len(suggestions) :
            LET sg == suggestions[n]
                k == Eligible[n]
            IN  /\ RatEq(sg.stop_price, StatedStop(k))
                /\ RatEq(sg.risk, Floored(StatedRisk(k, sg)))
                /\ RatEq(sg.reward, Floored(StatedReward(k, sg)))
                /\ RatioOf(sg)

\* C19 witness: a support band whose nearest resistance band lies below its
\* entry got reward 0 and rr_ratio 0 at a positive risk.
C19_Witness ==
    /\ RRDone
    /\ \E n \in 1..Len(suggestions) :
          /\ suggestions[n].band_type = "support"
          /\ RatLess(suggestions[n].take_profit_price, suggestions[n].entry_price)
          /\ suggestions[n].risk[1] > 0
          /\ suggestions[n].reward[1] = 0
          /\ suggestions[n].rr_ratio # Inf
          /\ suggestions[n].rr_ratio[1] = 0

\* C19, risk = 0: a band of zero width entered at its boundary with no stop
\* buffer got rr_ratio = +infinity.
C19_InfWitness ==
    /\ RRDone
    /\ \E n \in 1..Len(suggestions) :
          suggestions[n].risk[1] = 0 /\ suggestions[n].rr_ratio = Inf

\* one support and one resistance band, the support mid below the resistance
\* mid, no stop buffer, entry at mid
OnePair ==
    /\ Len(bands) = 2
    /\ bands[1].band_type # bands[2].band_type
    /\ \A j, k \in 1..2 :
          (bands[j].band_type = "support" /\ bands[k].band_type = "resistance")
              => RatLess(bands[j].mid, bands[k].mid)
    /\ stop_buffer_pct[1] = 0
    /\ entry_at = "mid"

FinitePositive(sg) ==
    /\ sg.risk[1] > 0
    /\ sg.reward[1] > 0
    /\ sg.rr_ratio # Inf
    /\ sg.rr_ratio[1] > 0

\* C20 as stated: one support and one resistance band with the support mid
\* below the resistance mid, zero stop buffer and the default mid entry give
\* exactly 2 suggestions, each with finite, strictly positive risk, reward
\* and rr_ratio.
C20_Original ==
    (RRDone /\ OnePair) =>
        /\ Len(suggestions) = 2
        /\ \A n \in 1..Len(suggestions) : FinitePositive(suggestions[n])

\* C20 amended: the same under the further condition that the mid of each
\* band lies strictly between its lower and upper bound; a band of zero width
\* gets risk 0 and rr_ratio +infinity.
C20_Amended ==
    (/\ RRDone
     /\ OnePair
     /\ \A k \in 1..Len(bands) :
           /\ RatLess(Rat(bands[k].lower), bands[k].mid)
           /\ RatLess(bands[k].mid, Rat(bands[k].upper)))
    => /\ Len(suggestions) = 2
       /\ \A n \in 1..Len(suggestions) : FinitePositive(suggestions[n])

\* C20 witness: a support band around 100 and a resistance band around 120,
\* both of non-zero width, gave two suggestions with rr_ratio 20 each.
C20_Witness ==
    /\ RRDone
    /\ OnePair
    /\ bands[1].band_type = "support"
    /\ bands[1].lower = 99 /\ bands[1].upper = 101
    /\ bands[2].lower = 119 /\ bands[2].upper = 121
    /\ Len(suggestions) = 2
    /\ \A n \in 1..2 : suggestions[n].rr_ratio = <<20, 1>>

-----------------------------------------------------------------------------
(* Greedy clustering: order of placement and shape of the result *)

\* a precedes b in ascending (price, timestamp) order
PriceTimeOrdered(a, b) ==
    a.price < b.price \/ (a.price = b.price /\ a.timestamp <= b.timestamp)

Clustering == pc \in {"cluster_loop", "clustered", "bands_done"}

\* the point the placement loop handles next
Current == sorted_points[ci + 1]

\* the midpoint test of cluster j on a price p, in integers:
\* |p - mid| <= tolerance_pct * (p + mid) / 2 with mid = (lo + hi) / 2
Accepts(j, p) ==
    2 * Abs(2 * p - TwiceMid(j)) * tolerance_pct[2]
        <= tolerance_pct[1] * (2 * p + TwiceMid(j))

Acceptors == {j \in 1..Len(clusters) : Accepts(j, Current.price)}

\* number of clusters that hold the point pt
Holders(pt) ==
    Cardinality({j \in 1..Len(clusters) : pt \in Range(clusters[j])})

\* C26: cluster_reversals handles the points in ascending (price, timestamp)
\* order and puts each into the first cluster, in creation order, whose current
\* midpoint accepts it, opening a new single-point cluster only when no cluster
\* accepts it; the result is a partition of the input (every input point is in
\* exactly one cluster, no cluster is empty) and each cluster's members are in
\* ascending timestamp order.
C26_FirstFitPartition ==
    /\ [](Clustering =>
            /\ Range(sorted_points) = Range(reversals)
            /\ Len(sorted_points) = Len(reversals)
            /\ \A k \in 1..(Len(sorted_points) - 1) :
                  PriceTimeOrdered(sorted_points[k], sorted_points[k + 1]))
    /\ [][(pc = "cluster_loop" /\ ci' = ci + 1) =>
             IF Acceptors = {}
             THEN clusters' = Append(clusters, <<Current>>)
             ELSE clusters' = [clusters EXCEPT ![SetMin(Acceptors)] =
                                  Append(@, Current)]]_vars
    /\ [](pc \in {"clustered", "bands_done"} =>
            /\ \A pt \in Range(reversals) : Holders(pt) = 1
            /\ \A j \in 1..Len(clusters) :
                  /\ clusters[j] # <<>>
                  /\ Range(clusters[j]) \subseteq Range(reversals)
                  /\ Chronological(clusters[j]))

\* C26 witness: clustering returned two clusters, one of them with two members
\* whose chronological order is the reverse of their order by price.
C26_Witness ==
    /\ pc = "clustered"
    /\ Len(clusters) = 2
    /\ \E j \in 1..2 :
          /\ Len(clusters[j]) = 2
          /\ clusters[j][1].price > clusters[j][2].price
          /\ clusters[j][1].timestamp < clusters[j][2].timestamp

\* positions in sorted_points of the members of cluster j
Positions(j) ==
    {k \in 1..Len(sorted_points) : sorted_points[k] \in Range(clusters[j])}

\* |p - mid of cluster j|, doubled
MidGapTo(j, p) == Abs(2 * p - TwiceMid(j))

\* C29: for positive prices and 0 <= tolerance_pct < 2, at every step of
\* cluster_reversals at most one existing cluster can accept the current point
\* and it is the most recently created one; so each cluster is a consecutive
\* run of the price-sorted points, the clusters' price ranges are pairwise
\* disjoint and increase with creation order, and the first accepting cluster
\* is also the accepting cluster closest to the point.
C29_OnlyNewestAccepts ==
    /\ (pc = "cluster_loop" /\ ci < Len(sorted_points)) =>
          /\ Acceptors \subseteq {Len(clusters)}
          /\ \A j \in Acceptors : \A h \in Acceptors :
                j = SetMin(Acceptors)
                    => MidGapTo(j, Current.price) <= MidGapTo(h, Current.price)
    /\ Clustering =>
          /\ \A j \in 1..Len(clusters) :
                \A a, b \in Positions(j) :
                    \A k \in a..b : k \in Positions(j)
          /\ \A j \in 1..(Len(clusters) - 1) :
                SetMax(cluster_prices(clusters[j]))
                    < SetMin(cluster_prices(clusters[j + 1]))

\* C29 witness: with two single-point clusters in place the current point, at
\* a higher price than both, is accepted by the newer cluster and by no other.
C29_Witness ==
    /\ pc = "cluster_loop"
    /\ ci < Len(sorted_points)
    /\ Len(clusters) = 2
    /\ Current.price > clusters[2][1].price
    /\ Acceptors = {2}

-----------------------------------------------------------------------------
(* Entry preference of the risk/reward suggestions *)

\* C28: when the entry preference selects the band boundary instead of the
\* mid, every support suggestion uses entry = the band's lower and every
\* resistance suggestion uses entry = the band's upper within the same
\* compute_rr_suggestions call; with the default preference both use
\* entry = mid.
C28_BoundaryEntry ==
    RRDone =>
        \A n \in 1..Len(suggestions) :
            LET b == bands[Eligible[n]]
                entry == suggestions[n].entry_price
            IN  IF entry_at = "mid" THEN RatEq(entry, b.mid)
                ELSE IF b.band_type = "support" THEN RatEq(entry, Rat(b.lower))
                ELSE RatEq(entry, Rat(b.upper))

-----------------------------------------------------------------------------
(* Conservation of in-window updates by build_full_4h_candles *)

RECURSIVE SumCounts(_)
SumCounts(cs) == IF cs = <<>> THEN 0 ELSE Head(cs).count + SumCounts(Tail(cs))

\* C30: build_full_4h_candles loses no in-window data for any window, aligned
\* to the 4-hour grid or not: the sample counts of the output bars sum to the
\* number of updates with start <= publish_time < end, and every real bar the
\* aggregator produced appears unchanged in the backfilled series.
C30_NoLoss ==
    (pc = "backfilled" /\ updates # <<>>) =>
        /\ SumCounts(full) = Cardinality(InWindowIdx)
        /\ \A k \in 1..Len(aggregated) : aggregated[k] \in Range(full)

-----------------------------------------------------------------------------
(* core/agent.py, core/tools/risk_manager.py, config/constants.py *)

MAX_PORTFOLIO_EXPOSURE == <<1, 4>>
MAX_SLIPPAGE_BPS == 75

\* RSIStrategy.strategy_id
strategy_id == "RSI_STRAT"

TradeSignal(should_enter, amount, expected_price, portfolio_value, position_size) ==
    [should_enter |-> should_enter, amount |-> amount,
     expected_price |-> expected_price, portfolio_value |-> portfolio_value,
     position_size |-> position_size]

\* signals of strategy.generate_signal
Signals ==
    {TradeSignal(e, a, x, 10000, p) :
        e \in BOOLEAN, a \in SignalAmounts, x \in ExpectedPrices,
        p \in PositionSizes}

\* the one element of a singleton
The(S) == CHOOSE x \in S : TRUE

\* RiskManager.validate_position_size: is_acceptable
validate_position_size(portfolio_value, position_value) ==
    ~RatLess(RatMul(Rat(portfolio_value), MAX_PORTFOLIO_EXPOSURE),
             Rat(position_value))

\* RiskManager.validate_slippage: is_acceptable, for expected_price # 0;
\* execution_price is a rational
validate_slippage(expected_price, execution_price) ==
    LET slippage ==
            <<Abs(execution_price[1] - expected_price * execution_price[2]) * 10000,
              execution_price[2] * Abs(expected_price)>>
    IN  ~RatLess(Rat(MAX_SLIPPAGE_BPS), slippage)

\* the analytics pipeline before any call
PipelineIdle ==
    /\ BandsIdle
    /\ IndicatorsIdle
    /\ candles = <<>>
    /\ min_separation_bars = 1
    /\ min_price_move_pct = <<0, 1>>
    /\ i = 0
    /\ reversals = <<>>
    /\ last_pivot_price = {}
    /\ last_index = {}
    /\ step = "idle"
    /\ error = "none"
    /\ updates = <<>>
    /\ start_time = 0
    /\ end_time = 0
    /\ aggregated = <<>>
    /\ full = <<>>
    /\ expected_count = 0
    /\ minimum_unique = 0
    /\ ok = FALSE
    /\ reasons = <<>>

InitAgent ==
    /\ pc = "agent_idle"
    /\ AgentIdle
    /\ ServiceIdle /\ BusIdle
    /\ PipelineIdle

AgentRest ==
    UNCHANGED <<ohlcVars, revVars, bandVars, indVars, svcVars, busVars>>

\* run_cycle: collect_market_data and generate_signal
AgentSignal ==
    /\ pc = "agent_idle"
    /\ cycle < MaxCycles
    /\ cycle' = cycle + 1
    /\ \E sg \in Signals : signal' = {sg}
    /\ quote' = {}
    /\ position_assessment' = {}
    /\ slippage_assessment' = {}
    /\ executed' = <<>>
    /\ error' = "none"
    /\ pc' = "signalled"
    /\ AgentRest

\* if not signal.should_enter: return
AgentNoEntry ==
    /\ pc = "signalled"
    /\ ~The(signal).should_enter
    /\ pc' = "agent_idle"
    /\ UNCHANGED <<agentVars, error>>
    /\ AgentRest

\* quote_fetcher.fetch_swap_quote returns a quote
AgentQuote ==
    /\ pc = "signalled"
    /\ The(signal).should_enter
    /\ \E q \in QuoteAmounts : quote' = {q}
    /\ pc' = "quoted"
    /\ UNCHANGED <<signal, position_assessment, slippage_assessment, executed,
                   cycle, error>>
    /\ AgentRest

\* quote_fetcher.fetch_swap_quote raises RuntimeError, which ends the cycle
AgentQuoteFails ==
    /\ pc = "signalled"
    /\ The(signal).should_enter
    /\ error' = "RuntimeError"
    /\ pc' = "agent_idle"
    /\ UNCHANGED agentVars
    /\ AgentRest

\* faulty variant: a rejected position size does not end the cycle
AgentPositionContinue ==
    /\ pc = "quoted"
    /\ position_assessment' =
          {validate_position_size(The(signal).portfolio_value,
                                  The(signal).position_size)}
    /\ pc' = "sized"
    /\ UNCHANGED <<signal, quote, slippage_assessment, executed, cycle, error>>
    /\ AgentRest

\* validate_position_size; return if not acceptable
AgentPosition ==
    /\ pc = "quoted"
    /\ position_assessment' =
          {validate_position_size(The(signal).portfolio_value,
                                  The(signal).position_size)}
    /\ pc' = IF validate_position_size(The(signal).portfolio_value,
                                       The(signal).position_size)
             THEN "sized" ELSE "agent_idle"
    /\ UNCHANGED <<signal, quote, slippage_assessment, executed, cycle, error>>
    /\ AgentRest

\* quote.to_token_amount / signal.amount or the division in validate_slippage
\* raises ZeroDivisionError, which ends the cycle
AgentSlippageRaises ==
    /\ pc = "sized"
    /\ (The(signal).amount = 0 \/ The(signal).expected_price = 0)
    /\ error' = "ZeroDivisionError"
    /\ pc' = "agent_idle"
    /\ UNCHANGED agentVars
    /\ AgentRest

\* validate_slippage; return if not acceptable
AgentSlippage ==
    /\ pc = "sized"
    /\ The(signal).amount # 0
    /\ The(signal).expected_price # 0
    /\ LET acceptable ==
               validate_slippage(The(signal).expected_price,
                                 <<The(quote), The(signal).amount>>)
       IN  /\ slippage_assessment' = {acceptable}
           /\ pc' = IF acceptable THEN "cleared" ELSE "agent_idle"
    /\ UNCHANGED <<signal, quote, position_assessment, executed, cycle, error>>
    /\ AgentRest

\* build_execution_params and executor.execute_strategy
AgentExecute ==
    /\ pc = "cleared"
    /\ executed' = Append(executed, strategy_id)
    /\ pc' = "agent_idle"
    /\ UNCHANGED <<signal, quote, position_assessment, slippage_assessment,
                   cycle, error>>
    /\ AgentRest

NextAgent == \/ AgentSignal \/ AgentNoEntry \/ AgentQuote \/ AgentQuoteFails
             \/ AgentPosition \/ AgentSlippageRaises \/ AgentSlippage
             \/ AgentExecute

SpecAgent == InitAgent /\ [][NextAgent]_vars

CycleOver == pc = "agent_idle" /\ cycle >= 1

C25_RejectedWitness ==
    /\ CycleOver
    /\ position_assessment = {TRUE}
    /\ slippage_assessment = {FALSE}
    /\ executed = <<>>

-----------------------------------------------------------------------------
(* api/event_bus.py on one asyncio loop.  ready is the loop's FIFO of
   callbacks; its head is the task that is running, which stays at the head
   until it suspends or finishes.  The publishing task is the caller of
   tests/test_event_bus.py; the consumer task iterates bus.subscribe() and
   stops after two events. *)

Item(kind, event, waiter) == <<kind, event, waiter>>
MainItem == Item("main", "", "")
ConsumerItem == Item("consumer", "", "")

Running(kind) == ready # <<>> /\ Head(ready)[1] = kind

\* EventBus.publish: the queue.put tasks that gather creates, none if there
\* is no subscriber
publish(subs, event, waiter) ==
    IF subs = {} THEN <<>> ELSE <<Item("put", event, waiter)>>

InitBus ==
    /\ pc = "bus"
    /\ loop_set \in BOOLEAN
    /\ subscribers = {}
    /\ queues = <<>>
    /\ ready = <<MainItem>>
    /\ main_pc = "start"
    /\ cons_pc = "new"
    /\ collected = <<>>
    /\ warmup \in Warmups
    /\ events \in Events \X Events
    /\ ServiceIdle /\ AgentIdle
    /\ PipelineIdle

BusRest ==
    UNCHANGED <<pc, error, ohlcVars, revVars, bandVars, indVars, svcVars,
                agentVars, loop_set, warmup, events>>

\* consumer = asyncio.create_task(consume())
MainCreateTask ==
    /\ Running("main")
    /\ main_pc = "start"
    /\ ready' = Append(ready, ConsumerItem)
    /\ main_pc' = IF warmup > 0 THEN "sleep" ELSE "publish"
    /\ UNCHANGED <<subscribers, queues, cons_pc, collected>>
    /\ BusRest

\* await asyncio.sleep(0): the publishing task goes to the back of the loop
MainSleep ==
    /\ Running("main")
    /\ main_pc = "sleep"
    /\ ready' = Append(Tail(ready), MainItem)
    /\ main_pc' = "publish"
    /\ UNCHANGED <<subscribers, queues, cons_pc, collected>>
    /\ BusRest

\* await bus.publish(first): returns at once without subscribers, otherwise
\* waits for the gathered puts
MainPublish ==
    /\ Running("main")
    /\ main_pc = "publish"
    /\ IF subscribers = {}
       THEN /\ main_pc' = "sync"
            /\ ready' = ready
       ELSE /\ main_pc' = "await_publish"
            /\ ready' = Tail(ready) \o publish(subscribers, events[1], "main")
    /\ UNCHANGED <<subscribers, queues, cons_pc, collected>>
    /\ BusRest

\* bus.publish_sync(second): run_coroutine_threadsafe hands a callback to the
\* loop, nothing happens without a loop
MainPublishSync ==
    /\ Running("main")
    /\ main_pc = "sync"
    /\ ready' = IF loop_set
                THEN Append(ready, Item("call_soon", events[2], ""))
                ELSE ready
    /\ main_pc' = "join"
    /\ UNCHANGED <<subscribers, queues, cons_pc, collected>>
    /\ BusRest

\* result = await consumer
MainJoin ==
    /\ Running("main")
    /\ main_pc = "join"
    /\ main_pc' = IF cons_pc = "done" THEN "done" ELSE "await_consumer"
    /\ ready' = Tail(ready)
    /\ UNCHANGED <<subscribers, queues, cons_pc, collected>>
    /\ BusRest

\* the publishing task is resumed by the end of the gathered puts
MainResume ==
    /\ Running("resume")
    /\ Head(ready)[3] = "main"
    /\ main_pc = "await_publish"
    /\ main_pc' = "sync"
    /\ ready' = Append(Tail(ready), MainItem)
    /\ UNCHANGED <<subscribers, queues, cons_pc, collected>>
    /\ BusRest

\* the publishing task is resumed by the end of the consumer
MainJoined ==
    /\ Running("main")
    /\ main_pc = "await_consumer"
    /\ cons_pc = "done"
    /\ main_pc' = "done"
    /\ ready' = Tail(ready)
    /\ UNCHANGED <<subscribers, queues, cons_pc, collected>>
    /\ BusRest

\* the callback of run_coroutine_threadsafe creates the task of publish
CallSoon ==
    /\ Running("call_soon")
    /\ ready' = Append(Tail(ready), Item("publish", Head(ready)[2], ""))
    /\ UNCHANGED <<subscribers, queues, main_pc, cons_pc, collected>>
    /\ BusRest

\* the task of publish created by publish_sync
PublishTask ==
    /\ Running("publish")
    /\ ready' = Tail(ready) \o publish(subscribers, Head(ready)[2], "task")
    /\ UNCHANGED <<subscribers, queues, main_pc, cons_pc, collected>>
    /\ BusRest

\* queue.put(event): the event is queued, a waiting getter is woken, and the
\* awaiter of the gather is resumed
Put ==
    /\ Running("put")
    /\ queues' = Append(queues, Head(ready)[2])
    /\ cons_pc' = IF cons_pc = "waiting" THEN "woken" ELSE cons_pc
    /\ ready' = Tail(ready)
                \o (IF cons_pc = "waiting" THEN <<ConsumerItem>> ELSE <<>>)
                \o <<Item("resume", "", Head(ready)[3])>>
    /\ UNCHANGED <<subscribers, main_pc, collected>>
    /\ BusRest

\* the task of publish created by publish_sync ends
TaskResume ==
    /\ Running("resume")
    /\ Head(ready)[3] = "task"
    /\ ready' = Tail(ready)
    /\ UNCHANGED <<subscribers, queues, main_pc, cons_pc, collected>>
    /\ BusRest

\* subscribe: the queue is created and registered, then the consumer waits in
\* queue.get()
ConsumerSubscribe ==
    /\ Running("consumer")
    /\ cons_pc = "new"
    /\ subscribers' = subscribers \cup {1}
    /\ cons_pc' = "waiting"
    /\ ready' = Tail(ready)
    /\ UNCHANGED <<queues, main_pc, collected>>
    /\ BusRest

\* queue.get() returns, subscribe yields the event and consume appends it;
\* after the second event consume returns, which wakes the task awaiting it
\* and leaves the generator to be closed
ConsumerReceive ==
    /\ Running("consumer")
    /\ cons_pc = "woken"
    /\ queues # <<>>
    /\ collected' = Append(collected, Head(queues))
    /\ queues' = Tail(queues)
    /\ IF Len(collected) + 1 = 2
       THEN /\ cons_pc' = "done"
            /\ ready' = Tail(ready)
                        \o (IF main_pc = "await_consumer"
                            THEN <<MainItem>> ELSE <<>>)
                        \o <<Item("aclose", "", "")>>
       ELSE IF Tail(queues) # <<>>
       THEN /\ cons_pc' = "woken"
            /\ ready' = ready
       ELSE /\ cons_pc' = "waiting"
            /\ ready' = Tail(ready)
    /\ UNCHANGED <<subscribers, main_pc>>
    /\ BusRest

\* the finally clause of subscribe, run when the generator is closed
ConsumerClose ==
    /\ Running("aclose")
    /\ subscribers' = subscribers \ {1}
    /\ ready' = Tail(ready)
    /\ UNCHANGED <<queues, main_pc, cons_pc, collected>>
    /\ BusRest

NextBus == \/ MainCreateTask \/ MainSleep \/ MainPublish \/ MainPublishSync
           \/ MainJoin \/ MainResume \/ MainJoined \/ CallSoon \/ PublishTask
           \/ Put \/ TaskResume \/ ConsumerSubscribe \/ ConsumerReceive
           \/ ConsumerClose

SpecBus == InitBus /\ [][NextBus]_vars

\* nothing is left to run on the loop
Quiescent == pc = "bus" /\ ready = <<>>

\* C24: a consumer task created before publish(first) and
\* publish_sync(second) on a bus with a loop receives first then second,
\* nothing lost or duplicated, and terminates: when the loop has nothing left
\* to run, the consumer is done and has collected exactly the two events.
C24_BothDelivered ==
    (Quiescent /\ loop_set) =>
        /\ cons_pc = "done"
        /\ collected = events

\* the run of tests/test_event_bus.py comes to rest with the first event
\* lost and the consumer still waiting
C24_LostFirst ==
    /\ Quiescent
    /\ loop_set
    /\ warmup = 0
    /\ cons_pc = "waiting"
    /\ main_pc = "await_consumer"
    /\ collected = <<events[2]>>

\* with one yield before publishing both events are delivered
C24_DeliveredAfterYield ==
    /\ Quiescent
    /\ loop_set
    /\ warmup = 1
    /\ cons_pc = "done"
    /\ main_pc = "done"
    /\ collected = events
    /\ subscribers = {}

-----------------------------------------------------------------------------
(* services/support_resistance.py: SupportResistanceService.build.  The
   analytics functions it calls are the ones modelled above, here in the form
   of operators. *)

\* detect_reversals: the for loop from index idx on
RECURSIVE detect_loop(_, _, _, _, _, _, _)
detect_loop(cs, idx, sep, pct, last_price, last_idx, acc) ==
    IF ~(idx < Len(cs) - 1) THEN acc
    ELSE IF \/ kind_at(cs, idx) = "none"
            \/ too_close(idx, last_idx, sep)
            \/ small_move(magnitude(cs[idx + 1].close, last_price), pct,
                          last_price)
         THEN detect_loop(cs, idx + 1, sep, pct, last_price, last_idx, acc)
         ELSE detect_loop(cs, idx + 1, sep, pct, {cs[idx + 1].close}, {idx},
                  Append(acc,
                      ReversalPoint(idx, cs[idx + 1].start_time,
                                    cs[idx + 1].close, kind_at(cs, idx),
                                    magnitude(cs[idx + 1].close, last_price))))

detect_reversals(cs, sep, pct) ==
    IF Len(cs) < 3 THEN <<>> ELSE detect_loop(cs, 1, sep, pct, {}, {}, <<>>)

\* cluster_reversals: the placement loop over the sorted points
RECURSIVE place_loop(_, _, _)
place_loop(points, cls, tol) ==
    IF points = <<>> THEN cls
    ELSE LET accepting == {j \in 1..Len(cls) :
                              merge_into_cluster(cls[j], Head(points), tol)}
         IN  place_loop(Tail(points),
                 IF accepting = {} THEN Append(cls, <<Head(points)>>)
                 ELSE [cls EXCEPT ![SetMin(accepting)] = Append(@, Head(points))],
                 tol)

cluster_reversals(rs, tol) ==
    IF rs = <<>> THEN <<>>
    ELSE LET cls == place_loop(sort_by_price_then_time(rs), <<>>, tol)
         IN  [j \in 1..Len(cls) |-> sort_by_timestamp(cls[j])]

build_bands(rs, tol, touches) == build_loop(cluster_reversals(rs, tol), touches)

project_bands(bs, hours) ==
    IF hours <= 0 THEN bs
    ELSE [k \in 1..Len(bs) |->
             [bs[k] EXCEPT !.projected_until_ts =
                               {bs[k].last_touch_ts + hours * 3600}]]

\* _resolve_price_id: the symbols of settings.pyth.price_feed_ids
configured(sym) == sym \in {"ETH_USD", "BTC_USD"}

\* 10000 * cos(i / 5) and 10000 * sin(i / 4) for i = 0 .. 29, to the nearest
\* integer
cos_table ==
    <<10000, 9801, 9211, 8253, 6967, 5403, 3624, 1700, -292, -2272, -4161,
      -5885, -7374, -8569, -9422, -9900, -9983, -9668, -8968, -7910, -6536,
      -4903, -3073, -1122, 875, 2837, 4685, 6347, 7756, 8855>>
sin_table ==
    <<0, 2474, 4794, 6816, 8415, 9490, 9975, 9840, 9093, 7781, 5985, 3817,
      1411, -1082, -3508, -5716, -7568, -8950, -9775, -9993, -9589, -8589,
      -7055, -5083, -2794, -332, 2151, 4500, 6570, 8231>>

\* _synthetic_candles, prices to the nearest unit below; base is the result
\* of _fallback_base_price
synthetic_candles(base, start, end) ==
    LET window == FOUR_HOURS_SECONDS
        total == Max2(30, (end - start) \div window)
        amplitude == base \div 50
        open_price(k) == base + (amplitude * sin_table[k]) \div 10000
        close_price(k) == base + (amplitude * cos_table[k]) \div 10000
    IN  [k \in 1..total |->
            Candle(start + (k - 1) * window, start + k * window,
                   open_price(k),
                   Max2(open_price(k), close_price(k)) + amplitude \div 5,
                   Min2(open_price(k), close_price(k)) - amplitude \div 5,
                   close_price(k), 1, FALSE)]

\* _fallback_bands: the early returns with no band
no_fallback(cs) ==
    \/ cs = <<>>
    \/ Len(cs) < 2
    \/ SetMin(Range(closes_of(cs))) <= 0
    \/ SetMax(Range(closes_of(cs))) - SetMin(Range(closes_of(cs))) <= 0

RatMax(a, b) == IF RatLe(a, b) THEN b ELSE a

\* _fallback_bands: tolerance_pct = max(tolerance_pct * 2, 0.005), min_touches = 2
relaxed_bands(cs, tol) ==
    build_bands(detect_reversals(cs, 1, <<0, 1>>),
                RatMax(RatMul(tol, Rat(2)), <<5, 1000>>), 2)

\* closes.index(value)
index_of(cl, value) == SetMin({k \in 1..Len(cl) : cl[k] = value})

\* make_points, idx counted from 0
make_points(cs, idx, kind) ==
    LET offsets == <<0, -2, 2>>
        j(n) == Max2(0, Min2(Len(cs) - 1, idx + offsets[n]))
    IN  [n \in 1..3 |->
            ReversalPoint(j(n), cs[j(n) + 1].start_time, cs[j(n) + 1].close,
                          kind, <<0, 1>>)]

\* fabricate_band; lower and upper are rationals
fabricate_band(points, band_type, center_price, tol, price_range) ==
    LET half_width == RatMax(RatMul(Rat(center_price), tol), <<price_range, 20>>)
    IN  Band(RatSub(Rat(center_price), half_width),
             RatAdd(Rat(center_price), half_width),
             Rat(center_price), points, band_type, Len(points),
             avg_bounce_distance(points, Rat(center_price)),
             points[Len(points)].timestamp)

\* _fallback_bands: the bands around the global extrema
fabricated_bands(cs, tolerance) ==
    LET closes == closes_of(cs)
        min_close == SetMin(Range(closes))
        max_close == SetMax(Range(closes))
        support_idx == index_of(closes, min_close) - 1
        resistance_idx == index_of(closes, max_close) - 1
        tol == RatMax(tolerance, <<2, 1000>>)
    IN  <<fabricate_band(make_points(cs, support_idx, "trough"), "support",
                         min_close, tol, max_close - min_close),
          fabricate_band(make_points(cs, resistance_idx, "peak"), "resistance",
                         max_close, tol, max_close - min_close)>>

\* build, lines 108-111: the bands of exact detection
exact_bands(cs, tol, touches, top_n, hours) ==
    project_bands(
        rank_bands(build_bands(detect_reversals(cs, 1, tol), tol, touches),
                   top_n),
        hours)

\* what history.fetch_updates may return: one update in each of the first
\* buckets of the window, all at different prices
Histories ==
    {h \in SeqsUpTo(HistPrices, MaxHist) :
        \A a, b \in 1..Len(h) : a # b => h[a] # h[b]}

UpdatesOf(h, start) ==
    [k \in 1..Len(h) |->
        [publish_time |-> (start \div FOUR_HOURS_SECONDS) * FOUR_HOURS_SECONDS
                          + (k - 1) * FOUR_HOURS_SECONDS + 10,
         price |-> h[k], expo |-> MinExpo]]

SupportResistanceResponse(sym, bs) == [asset |-> sym, bands |-> bs]

InitService ==
    /\ pc = "svc_call"
    /\ symbol \in Symbols
    /\ tolerance_pct \in RequestTolerances
    /\ min_touches \in RequestTouches
    /\ top_n_per_type = 3
    /\ projection_hours \in ProjectionHours
    /\ \E now \in Nows :
          /\ end_time = now
          /\ start_time = now - 5 * 24 * 3600
    /\ base_price = {}
    /\ substituted = FALSE
    /\ tried = <<>>
    /\ response = {}
    /\ BusIdle /\ AgentIdle
    /\ IndicatorsIdle
    /\ sorted_points = <<>>
    /\ clusters = <<>>
    /\ ci = 0
    /\ bands = <<>>
    /\ best = <<>>
    /\ candles = <<>>
    /\ min_separation_bars = 1
    /\ min_price_move_pct = tolerance_pct
    /\ i = 0
    /\ reversals = <<>>
    /\ last_pivot_price = {}
    /\ last_index = {}
    /\ step = "idle"
    /\ error = "none"
    /\ updates = <<>>
    /\ aggregated = <<>>
    /\ full = <<>>
    /\ expected_count = 30
    /\ minimum_unique = 5
    /\ ok = FALSE
    /\ reasons = <<>>

ServiceRest ==
    UNCHANGED <<indVars, busVars, agentVars, symbol, projection_hours,
                start_time, end_time, aggregated, full, expected_count,
                minimum_unique, min_separation_bars, min_price_move_pct, i,
                last_pivot_price, last_index, step, tolerance_pct, min_touches,
                sorted_points, clusters, ci, top_n_per_type, best>>

\* _resolve_price_id raises ValueError
ServiceUnknownSymbol ==
    /\ pc = "svc_call"
    /\ ~configured(symbol)
    /\ error' = "ValueError"
    /\ pc' = "svc_raised"
    /\ UNCHANGED <<updates, candles, ok, reasons, reversals, bands, base_price,
                   substituted, tried, response>>
    /\ ServiceRest

\* fetch_updates and build_full_4h_candles
ServiceFetch ==
    /\ pc = "svc_call"
    /\ configured(symbol)
    /\ \E h \in Histories :
          /\ updates' = UpdatesOf(h, start_time)
          /\ candles' = build_full_4h_candles(UpdatesOf(h, start_time),
                                              start_time, end_time)
    /\ pc' = "svc_built"
    /\ UNCHANGED <<error, ok, reasons, reversals, bands, base_price,
                   substituted, tried, response>>
    /\ ServiceRest

\* if not candles: candles = self._synthetic_candles(...)
ServiceSubstitute ==
    /\ pc = "svc_built"
    /\ candles = <<>>
    /\ \E base \in BasePrices :
          /\ base_price' = {base}
          /\ candles' = synthetic_candles(base, start_time, end_time)
    /\ substituted' = TRUE
    /\ pc' = "svc_data"
    /\ UNCHANGED <<error, updates, ok, reasons, reversals, bands, tried,
                   response>>
    /\ ServiceRest

\* the candles built from the updates are kept
ServiceKeep ==
    /\ pc = "svc_built"
    /\ candles # <<>>
    /\ pc' = "svc_data"
    /\ UNCHANGED <<error, updates, candles, ok, reasons, reversals, bands,
                   base_price, substituted, tried, response>>
    /\ ServiceRest

\* validate_candles(candles, expected_count=30, minimum_unique=5); ValueError
\* if not ok
ServiceValidate ==
    /\ pc = "svc_data"
    /\ ok' = validate_candles(candles, expected_count, minimum_unique)[1]
    /\ reasons' = validate_candles(candles, expected_count, minimum_unique)[2]
    /\ IF validate_candles(candles, expected_count, minimum_unique)[1]
       THEN pc' = "svc_valid" /\ error' = error
       ELSE pc' = "svc_raised" /\ error' = "ValueError"
    /\ UNCHANGED <<updates, candles, reversals, bands, base_price, substituted,
                   tried, response>>
    /\ ServiceRest

\* faulty variant: the fallback runs whatever exact detection yielded
ServiceExactFallsThrough ==
    /\ pc = "svc_valid"
    /\ reversals' = detect_reversals(candles, 1, tolerance_pct)
    /\ bands' = exact_bands(candles, tolerance_pct, min_touches,
                            top_n_per_type, projection_hours)
    /\ tried' = Append(tried, "exact")
    /\ pc' = "svc_fallback"
    /\ UNCHANGED <<error, updates, candles, ok, reasons, base_price,
                   substituted, response>>
    /\ ServiceRest

\* faulty variant: no fallback after exact detection
ServiceExactOnly ==
    /\ pc = "svc_valid"
    /\ reversals' = detect_reversals(candles, 1, tolerance_pct)
    /\ bands' = exact_bands(candles, tolerance_pct, min_touches,
                            top_n_per_type, projection_hours)
    /\ tried' = Append(tried, "exact")
    /\ pc' = "svc_bands"
    /\ UNCHANGED <<error, updates, candles, ok, reasons, base_price,
                   substituted, response>>
    /\ ServiceRest

\* detect_reversals, build_bands, rank_bands, project_bands; if not bands:
\* _fallback_bands
ServiceExact ==
    /\ pc = "svc_valid"
    /\ reversals' = detect_reversals(candles, 1, tolerance_pct)
    /\ bands' = exact_bands(candles, tolerance_pct, min_touches,
                            top_n_per_type, projection_hours)
    /\ tried' = Append(tried, "exact")
    /\ pc' = IF exact_bands(candles, tolerance_pct, min_touches,
                            top_n_per_type, projection_hours) = <<>>
             THEN "svc_fallback" ELSE "svc_bands"
    /\ UNCHANGED <<error, updates, candles, ok, reasons, base_price,
                   substituted, response>>
    /\ ServiceRest

\* _fallback_bands up to 'if relaxed_bands: return project_bands(...)'
ServiceRelaxed ==
    /\ pc = "svc_fallback"
    /\ IF no_fallback(candles)
       THEN /\ bands' = <<>>
            /\ pc' = "svc_bands"
            /\ UNCHANGED <<reversals, tried>>
       ELSE /\ reversals' = detect_reversals(candles, 1, <<0, 1>>)
            /\ tried' = Append(tried, "relaxed")
            /\ bands' = project_bands(relaxed_bands(candles, tolerance_pct),
                                      projection_hours)
            /\ pc' = IF relaxed_bands(candles, tolerance_pct) = <<>>
                     THEN "svc_fabricate" ELSE "svc_bands"
    /\ UNCHANGED <<error, updates, candles, ok, reasons, base_price,
                   substituted, response>>
    /\ ServiceRest

\* _fallback_bands, the last resort
ServiceFabricate ==
    /\ pc = "svc_fabricate"
    /\ tried' = Append(tried, "fabricated")
    /\ bands' = project_bands(fabricated_bands(candles, tolerance_pct),
                              projection_hours)
    /\ pc' = "svc_bands"
    /\ UNCHANGED <<error, updates, candles, ok, reasons, reversals, base_price,
                   substituted, response>>
    /\ ServiceRest

\* the response is returned
ServiceRespond ==
    /\ pc = "svc_bands"
    /\ response' = {SupportResistanceResponse(symbol, bands)}
    /\ pc' = "svc_done"
    /\ UNCHANGED <<error, updates, candles, ok, reasons, reversals, bands,
                   base_price, substituted, tried>>
    /\ ServiceRest

NextService == \/ ServiceUnknownSymbol \/ ServiceFetch \/ ServiceSubstitute
               \/ ServiceKeep \/ ServiceValidate \/ ServiceExact
               \/ ServiceRelaxed \/ ServiceFabricate \/ ServiceRespond

SpecService == InitService /\ [][NextService]_vars

\* build has validated its dataset
Validated == pc \in {"svc_valid", "svc_fallback", "svc_fabricate", "svc_bands",
                     "svc_done"}

\* C21: when build substitutes a generated dataset, every bar of it is
\* flagged synthetic and none counts as a real bar, so that validation does
\* not pass on generated bars alone.
C21_GeneratedFlagged ==
    substituted =>
        /\ \A k \in 1..Len(candles) : candles[k].synthetic
        /\ ~Validated

\* a generated dataset has passed validation with every bar counted as real
C21_PassedWitness ==
    /\ substituted
    /\ pc = "svc_valid"
    /\ ok
    /\ Len(candles) = 30
    /\ \A k \in 1..Len(candles) : ~candles[k].synthetic /\ candles[k].count = 1

\* C22: every response of build carries at least one band, whether the
\* history collaborator returned updates or none.
C22_BandsNonEmpty ==
    response # {} => The(response).bands # <<>>

\* C22 witness: a response built from real updates, with a band.
C22_Witness ==
    /\ pc = "svc_done"
    /\ ~substituted
    /\ updates # <<>>
    /\ response # {}
    /\ The(response).bands # <<>>

\* C22, no updates: a response built from a generated dataset, with bands.
C22_EmptyWitness ==
    /\ pc = "svc_done"
    /\ substituted
    /\ updates = <<>>
    /\ response # {}
    /\ Len(The(response).bands) = 2

StrictlyAlternating(points) ==
    \A k \in 1..(Len(points) - 1) : points[k].kind # points[k + 1].kind

\* C23: every band of a response has touch_count >= the request's
\* min_touches and member points whose kinds strictly alternate, whichever
\* strategy produced it.
C23_BandInvariants ==
    response # {} =>
        \A k \in 1..Len(The(response).bands) :
            /\ The(response).bands[k].touch_count >= min_touches
            /\ StrictlyAlternating(The(response).bands[k].points)

\* a response whose band has fewer touches than requested (relaxed detection)
C23_FewTouchesWitness ==
    /\ response # {}
    /\ tried = <<"exact", "relaxed">>
    /\ min_touches = 3
    /\ \E k \in 1..Len(The(response).bands) :
          The(response).bands[k].touch_count = 2

\* a response whose bands have points of one kind only (fabricated bands)
C23_OneKindWitness ==
    /\ response # {}
    /\ tried = <<"exact", "relaxed", "fabricated">>
    /\ \A k \in 1..Len(The(response).bands) :
          /\ Len(The(response).bands[k].points) = 3
          /\ \A n \in 1..3 : The(response).bands[k].points[n].kind
                             = The(response).bands[k].points[1].kind

Strategies == <<"exact", "relaxed", "fabricated">>

ExactYield ==
    exact_bands(candles, tolerance_pct, min_touches, top_n_per_type,
                projection_hours)
RelaxedYield ==
    project_bands(relaxed_bands(candles, tolerance_pct), projection_hours)
FabricatedYield ==
    project_bands(fabricated_bands(candles, tolerance_pct), projection_hours)

\* C27: the strategies run in the order exact, relaxed, fabricated; a later
\* one runs only if every earlier one yielded no band; the bands of the
\* response are those of the first strategy that yielded any, unmixed.
C27_StrategyOrder ==
    /\ tried = SubSeq(Strategies, 1, Len(tried))
    /\ pc \in {"svc_bands", "svc_done"} =>
          /\ Len(tried) >= 1
          /\ Len(tried) >= 2 => ExactYield = <<>>
          /\ Len(tried) >= 3 => RelaxedYield = <<>>
          /\ Len(tried) < 3 => bands # <<>>
          /\ bands = IF Len(tried) = 1 THEN ExactYield
                     ELSE IF Len(tried) = 2 THEN RelaxedYield
                     ELSE FabricatedYield
    /\ response # {} => The(response).bands = bands

\* C27 witness: on real updates all three strategies ran in order and the
\* response holds the fabricated bands.
C27_Witness ==
    /\ pc = "svc_done"
    /\ ~substituted
    /\ tried = Strategies
    /\ ExactYield = <<>>
    /\ RelaxedYield = <<>>
    /\ The(response).bands = FabricatedYield

\* C27, first strategy: exact detection yielded a band and nothing else ran.
C27_ExactWitness ==
    /\ pc = "svc_done"
    /\ tried = <<"exact">>
    /\ The(response).bands = ExactYield
    /\ ExactYield # <<>>

\* C27, second strategy: relaxed detection yielded after exact did not.
C27_RelaxedWitness ==
    /\ pc = "svc_done"
    /\ tried = <<"exact", "relaxed">>
    /\ ExactYield = <<>>
    /\ The(response).bands = RelaxedYield

====
